---- MODULE Spec2Model ----
(***************************************************************************)
(* A model of the deterministic text-analysis toolkit of the research      *)
(* assistant: the citation validator, the claim verifier (fact checker)    *)
(* and the search-result scorer.                                           *)
(*                                                                         *)
(* Python strings are sequences of one-character strings, so that the      *)
(* regular expressions, str.lower/upper/strip/split and the `in` operator  *)
(* are computed character by character.  Scores are exact fractions of     *)
(* Unit (Unit stands for 1.0).                                             *)
(***************************************************************************)
EXTENDS Integers, Sequences, FiniteSets, TLC

\* ------------------------------------------------------------------------
\* Numbers: a score s of the program is the integer s * Unit.
\* ------------------------------------------------------------------------
Unit == 12 * 100

Tenths(n) == n * (Unit \div 10)

Hundredths(n) == n * (Unit \div 100)

Min(a, b) == IF a <= b THEN a ELSE b

\* ------------------------------------------------------------------------
\* Characters and the str methods the tools use.
\* ------------------------------------------------------------------------
LowerLetters ==
  <<"a","b","c","d","e","f","g","h","i","j","k","l","m",
    "n","o","p","q","r","s","t","u","v","w","x","y","z">>

UpperLetters ==
  <<"A","B","C","D","E","F","G","H","I","J","K","L","M",
    "N","O","P","Q","R","S","T","U","V","W","X","Y","Z">>

Range(f) == { f[i] : i \in DOMAIN f }

Digits == {"0","1","2","3","4","5","6","7","8","9"}

\* \w of the re module: letters, digits and the underscore.
WordChars == Range(LowerLetters) \cup Range(UpperLetters) \cup Digits \cup {"_"}

\* \s of the re module, and what str.strip() and str.split() remove.
Whitespace == {" ", "\n", "\t"}

IndexIn(c, letters) == CHOOSE i \in DOMAIN letters : letters[i] = c

LowerChar(c) ==
  IF c \in Range(UpperLetters) THEN LowerLetters[IndexIn(c, UpperLetters)] ELSE c

UpperChar(c) ==
  IF c \in Range(LowerLetters) THEN UpperLetters[IndexIn(c, LowerLetters)] ELSE c

\* str.lower()
Lower(s) == [i \in 1..Len(s) |-> LowerChar(s[i])]

\* str.upper()
Upper(s) == [i \in 1..Len(s) |-> UpperChar(s[i])]

\* s[i-1:j] of Python, 1-based and inclusive here; empty when j < i.
Slice(s, i, j) == IF j < i THEN <<>> ELSE SubSeq(s, i, j)

\* s.startswith(p, i-1)
HasAt(s, i, p) ==
  /\ i >= 1
  /\ i + Len(p) - 1 <= Len(s)
  /\ \A k \in 1..Len(p) : s[i + k - 1] = p[k]

\* p in s  (substring test of two str)
Contains(p, s) == \E i \in 1..(Len(s) - Len(p) + 1) : HasAt(s, i, p)

SetMin(S) == CHOOSE x \in S : \A y \in S : x <= y

SetMax(S) == CHOOSE x \in S : \A y \in S : y <= x

\* str.strip()
Strip(s) ==
  LET keep == { i \in 1..Len(s) : s[i] \notin Whitespace }
  IN  IF keep = {} THEN <<>> ELSE SubSeq(s, SetMin(keep), SetMax(keep))

\* The maximal runs of characters of `class` in s, as (first, last) positions.
Runs(s, class) ==
  { <<i, j>> \in (1..Len(s)) \X (1..Len(s)) :
      /\ i <= j
      /\ \A k \in i..j : s[k] \in class
      /\ (i = 1 \/ s[i - 1] \notin class)
      /\ (j = Len(s) \/ s[j + 1] \notin class) }

\* set(re.findall(r'\b\w+\b', s)): a match starts at a word boundary, \w+ is
\* greedy, so the matches are the maximal runs of word characters.
WordTokens(s) == { SubSeq(s, r[1], r[2]) : r \in Runs(s, WordChars) }

\* set(s.split()): the maximal runs of non-whitespace characters.
SplitTerms(s) ==
  { SubSeq(s, r[1], r[2]) : r \in Runs(s, Range(s) \ Whitespace) }

RECURSIVE Concat(_)
\* "".join(parts)
Concat(parts) ==
  IF parts = <<>> THEN <<>> ELSE Head(parts) \o Concat(Tail(parts))

RECURSIVE Join(_, _)
\* sep.join(parts)
Join(sep, parts) ==
  IF parts = <<>> THEN <<>>
  ELSE IF Len(parts) = 1 THEN parts[1]
  ELSE parts[1] \o sep \o Join(sep, Tail(parts))

\* The fragments of `catalogue` at the positions in `chosen`, in catalogue order.
Pick(catalogue, chosen) ==
  LET F[i \in 0..Len(catalogue)] ==
        IF i = 0 THEN <<>>
        ELSE IF i \in chosen THEN Append(F[i - 1], catalogue[i]) ELSE F[i - 1]
  IN  F[Len(catalogue)]

\* The position sets of at most `most` fragments of a catalogue.
Choices(catalogue, most) ==
  { c \in SUBSET (1..Len(catalogue)) : Cardinality(c) <= most }

\* ------------------------------------------------------------------------
\* State.  The tools keep nothing between calls: the state of each is the
\* call in progress (its arguments, its position, its locals that the
\* claims speak of, and the value it returns).
\* ------------------------------------------------------------------------
VARIABLES
  claim,             \* fact checker: the claim text being verified
  sources,           \* fact checker: the source text
  fact_pc,           \* "call" before _verify_claim_against_sources ran, "return" after
  keyword_overlap,   \* its local keyword_overlap, as matching / total
  verification,      \* the record it returns
  query,             \* search: the query string
  max_results,       \* search: the max_results argument
  search_results,    \* search: what the search provider returned (its local list)
  search_pc,         \* "call" before the search ran, "return" after
  searched_by,       \* which of the two search tools ran
  search_output,     \* the value the search returns
  citation,          \* citation validator: the text of one citation
  style,             \* citation validator: the citation_style argument
  cite_pc,           \* "call" before the function under study ran, "return" after
  required_components, \* the list _get_required_components returned
  validation_result, \* the record _validate_single_citation returns
  citations,         \* citation batch: the citations argument of citation_validator
  citation_style,    \* citation batch: the citation_style argument
  batch_pc,          \* "call" before citation_validator ran, "return" after
  citation_list,     \* its local citation_list, what _parse_citations returned
  head_responses,    \* what the HEAD request of each citation's URL check did
  validation_results, \* the value citation_validator returns
  validated_by,      \* which of the two citation validators ran
  claims,            \* claim batch: the claims argument of fact_checker
  claim_sources,     \* claim batch: the sources argument
  check_pc,          \* "call" before fact_checker ran, "return" after
  fact_check_results, \* the value fact_checker returns
  workflow_state,    \* workflow: the dict ResearchWorkflow.workflow_state
  user_query,        \* workflow: the user_query argument of execute_research
  research_depth,    \* workflow: its research_depth argument
  exec_pc,           \* where execute_research is: "idle", a stage, "except", "return"
  stage_log,         \* the stages the call in progress has run, and how each ended
  workflow_results,  \* the value execute_research returns
  runs,              \* the calls of execute_research so far
  active_workflows,  \* manager: the dict WorkflowManager.active_workflows
  performance_stats, \* manager: its dict performance_stats
  created_workflows, \* the workflows create_workflow returned, in order, each
                     \* with the id it was registered under
  clock_seconds,     \* int(time.time()), counted from the manager's creation
  context_memory,    \* controller: session_state["context_memory"]
  recorded,          \* every event _update_session_state was called with, in order
  controller_calls,  \* the calls made on the controller so far
  controller_return  \* how the last call on the controller ended

factVars == <<claim, sources, fact_pc, keyword_overlap, verification>>

searchVars ==
  <<query, max_results, search_results, search_pc, searched_by, search_output>>

citeVars == <<citation, style, cite_pc, required_components, validation_result>>

batchVars ==
  <<citations, citation_style, batch_pc, citation_list, head_responses,
    validation_results, validated_by>>

checkVars == <<claims, claim_sources, check_pc, fact_check_results>>

workflowVars ==
  <<workflow_state, user_query, research_depth, exec_pc, stage_log,
    workflow_results, runs>>

managerVars ==
  <<active_workflows, performance_stats, created_workflows, clock_seconds>>

controllerVars == <<context_memory, recorded, controller_calls, controller_return>>

\* The state of the tools, and the state of the classes that orchestrate them.
toolVars == <<factVars, searchVars, citeVars, batchVars, checkVars>>

orchestrationVars == <<workflowVars, managerVars, controllerVars>>

\* What a step of one tool leaves alone: the state of the other tools.
notFactVars == <<searchVars, citeVars, batchVars, checkVars, orchestrationVars>>

notSearchVars == <<factVars, citeVars, batchVars, checkVars, orchestrationVars>>

notCiteVars == <<factVars, searchVars, batchVars, checkVars, orchestrationVars>>

notBatchVars == <<factVars, searchVars, citeVars, checkVars, orchestrationVars>>

notCheckVars == <<factVars, searchVars, citeVars, batchVars, orchestrationVars>>

notWorkflowVars == <<toolVars, managerVars, controllerVars>>

notManagerVars == <<toolVars, workflowVars, controllerVars>>

notControllerVars == <<toolVars, workflowVars, managerVars>>

\* ------------------------------------------------------------------------
\* Claim verifier (fact_checker_tool.py)
\* ------------------------------------------------------------------------
\* The most words a claim is built from.
MaxClaimWords == 10

ClaimVocabulary ==
  << <<"T","h","e">>,
     <<"c","a","t">>,
     <<"s","a","t">>,
     <<"o","n">>,
     <<"a">>,
     <<"m","a","t",".">>,
     <<"i","n">>,
     <<"s","u","n">>,
     <<"a","t">>,
     <<"n","o","o","n">>,
     <<"C","A","T">> >>

ClaimTexts ==
  { Join(<<" ">>, Pick(ClaimVocabulary, c)) :
      c \in Choices(ClaimVocabulary, MaxClaimWords) }

SourceTexts ==
  { <<>>,
    <<"T","h","e"," ","c","a","t"," ","o","n"," ","a"," ","m","a","t"," ","i","n">>,
    <<"S","a","t","u","r","n">>,
    <<"T","H","E"," ","S","U","N"," ","A","T"," ","N","O","O","N">> }

\* claim_keywords = set(re.findall(r'\b\w+\b', claim.lower()))
ClaimKeywords(c) == WordTokens(Lower(c))

\* matching_keywords = [kw for kw in claim_keywords if kw in source_text]
MatchingKeywords(c, src) ==
  { kw \in ClaimKeywords(c) : Contains(kw, Lower(src)) }

\* keyword_overlap = len(matching_keywords) / len(claim_keywords)
\*                   if claim_keywords else 0
KeywordOverlap(c, src) ==
  [matching |-> Cardinality(MatchingKeywords(c, src)),
   total    |-> Cardinality(ClaimKeywords(c))]

\* A comparison that leaves the boundary value out: > where the code has >=.
OverlapAbove(ov, tenths) ==
  IF ov.total = 0 THEN 0 > tenths ELSE 10 * ov.matching > tenths * ov.total

\* keyword_overlap >= tenths / 10, for the quotient of two list lengths
OverlapAtLeast(ov, tenths) ==
  IF ov.total = 0 THEN 0 >= tenths ELSE 10 * ov.matching >= tenths * ov.total

\* The if / elif / else that sets status, confidence and analysis.
VerificationBucket(ov) ==
  IF OverlapAtLeast(ov, 7)
  THEN [status     |-> "strongly_supported",
        confidence |-> Tenths(9),
        analysis   |-> "High keyword overlap with sources suggests strong support"]
  ELSE IF OverlapAtLeast(ov, 4)
  THEN [status     |-> "partially_supported",
        confidence |-> Tenths(6),
        analysis   |-> "Moderate keyword overlap suggests partial support"]
  ELSE [status     |-> "insufficient_evidence",
        confidence |-> Tenths(3),
        analysis   |-> "Low keyword overlap suggests insufficient supporting evidence"]

\* _verify_claim_against_sources(claim, sources, claim_number)
VerifyClaimAgainstSources(c, src, n) ==
  LET initial == [claim_number           |-> n,
                  claim                  |-> c,
                  confidence_score       |-> 0,
                  verification_status    |-> "unverified",
                  supporting_evidence    |-> <<>>,
                  contradicting_evidence |-> <<>>,
                  analysis               |-> ""]
      bucket  == VerificationBucket(KeywordOverlap(c, src))
  IN  [initial EXCEPT !.verification_status = bucket.status,
                      !.confidence_score    = bucket.confidence,
                      !.analysis            = bucket.analysis]

InitFact ==
  /\ claim \in ClaimTexts
  /\ sources \in SourceTexts
  /\ fact_pc = "call"
  /\ keyword_overlap = [matching |-> 0, total |-> 0]
  /\ verification = <<>>

IdleFact ==
  /\ claim = <<>>
  /\ sources = <<>>
  /\ fact_pc = "idle"
  /\ keyword_overlap = [matching |-> 0, total |-> 0]
  /\ verification = <<>>

\* One call of _verify_claim_against_sources, from entry to return.
VerifyClaim ==
  /\ fact_pc = "call"
  /\ keyword_overlap' = KeywordOverlap(claim, sources)
  /\ verification' = VerifyClaimAgainstSources(claim, sources, 1)
  /\ fact_pc' = "return"
  /\ UNCHANGED <<claim, sources, notFactVars>>

\* ------------------------------------------------------------------------
\* Search-result scorer (search_tool.py, and its copy in main.py)
\* ------------------------------------------------------------------------
\* The largest max_results argument, and the most hits the provider returns.
MaxResults == 3

MaxHits == 3

Queries ==
  { <<>>,
    <<" ","\t">>,
    <<"A","I"," "," ","s","a","f","e","t","y"," ","a","i">> }

LongBody ==
  <<"A","r","t","i","f","i","c","i","a","l"," ","i","n","t","e","l","l","i","g","e",
    "n","c","e"," ","s","a","f","e","t","y"," ","i","s"," ","t","h","e"," ","s","t",
    "u","d","y"," ","o","f"," ","h","o","w"," ","t","o"," ","b","u","i","l","d"," ",
    "A","I"," ","s","y","s","t","e","m","s"," ","t","h","a","t"," ","b","e","h","a",
    "v","e"," ","a","s"," ","t","h","e","i","r"," ","d","e","s","i","g","n","e","r",
    "s"," ","i","n","t","e","n","d",".">>

\* The raw hits the provider may return: dicts with the keys title, body, href,
\* any of which may be missing.
HitCatalogue ==
  { [title |-> <<"A","I"," ","s","a","f","e","t","y">>,
     body  |-> <<"a","i">>,
     href  |-> <<"h","t","t","p","s",":","/","/","m","i","t",".","e","d","u","/","a","i">>],
    [title |-> <<"S","a","f","e","t","y">>,
     body  |-> <<"A","I"," ","n","e","w","s">>,
     href  |-> <<"h","t","t","p","s",":","/","/","b","b","c",".","c","o","m","/","n","e","w","s">>],
    [title |-> <<"a","i"," ","s","a","f","e","t","y">>,
     body  |-> <<"A","I">>,
     href  |-> <<"h","t","t","p","s",":","/","/","n","a","s","a",".","g","o","v","/","x">>],
    [title |-> <<"A"," ","l","o","n","g"," ","t","i","t","l","e"," ","a","b","o","u","t"," ","A","I"," ","s","a","f","e","t","y">>,
     body  |-> LongBody,
     href  |-> <<"h","t","t","p","s",":","/","/","x",".","c","o","m","/","w","i","k","i","p","e","d","i","a",".","o","r","g">>],
    [href  |-> <<"h","t","t","p",":","/","/","a","r","x","i","v",".","c","o","m","/","a","b","s">>],
    [title |-> <<"A","I">>,
     body  |-> <<"s","a","f","e","t","y">>],
    [title |-> <<"P","a","p","e","r","s">>,
     body  |-> <<"a","i"," ","s","a","f","e","t","y">>,
     href  |-> <<"h","t","t","p","s",":","/","/","w","i","k","i","p","e","d","i","a",".","c","o","m","/","A","I">>] }

\* result.get(key, "")
GetStr(result, key) == IF key \in DOMAIN result THEN result[key] ELSE <<>>

\* set(query.lower().split()) of every query, computed once.
TermsOfQuery == [q \in Queries |-> SplitTerms(Lower(q))]

\* query_terms = set(query.lower().split())
QueryTerms(q) == TermsOfQuery[q]

\* len([term for term in query_terms if term in text])
TermMatches(q, text) ==
  Cardinality({ term \in QueryTerms(q) : Contains(term, text) })

\* The weights of title and body taken for one another.
WeightedRelevanceBodyFirst(q, result) ==
  LET title_matches == TermMatches(q, Lower(GetStr(result, "title")))
      body_matches  == TermMatches(q, Lower(GetStr(result, "body")))
      relevance     == ((title_matches * 3 + body_matches * 7) * Tenths(1))
                         \div Cardinality(QueryTerms(q))
  IN  Min(relevance, Unit)

\* (title_matches * 0.7 + body_matches * 0.3) / len(query_terms), capped at 1.0
WeightedRelevance(q, result) ==
  LET title_matches == TermMatches(q, Lower(GetStr(result, "title")))
      body_matches  == TermMatches(q, Lower(GetStr(result, "body")))
      relevance     == ((title_matches * 7 + body_matches * 3) * Tenths(1))
                         \div Cardinality(QueryTerms(q))
  IN  Min(relevance, Unit)

\* _calculate_relevance of search_tool.py: the division is by len(query_terms)
\* whatever it is, and a division by zero raises ZeroDivisionError.
CalculateRelevance(q, result) ==
  IF Cardinality(QueryTerms(q)) = 0
  THEN [raised |-> TRUE, error |-> "float division by zero"]
  ELSE [raised |-> FALSE, value |-> WeightedRelevance(q, result)]

\* AdvancedWebSearchTool._calculate_relevance of main.py: returns 0.5 when the
\* query has no term.
MainCalculateRelevance(q, result) ==
  IF QueryTerms(q) = {}
  THEN [raised |-> FALSE, value |-> Tenths(5)]
  ELSE [raised |-> FALSE, value |-> WeightedRelevance(q, result)]

AnyIn(needles, text) == \E n \in needles : Contains(n, text)

TopLevelDomains ==
  { <<".","e","d","u">>, <<".","g","o","v">>, <<".","o","r","g">> }

ReferenceSites ==
  { <<"w","i","k","i","p","e","d","i","a">>, <<"a","r","x","i","v">>,
    <<"s","c","h","o","l","a","r">> }

NewsSites ==
  { <<"b","b","c">>, <<"c","n","n">>, <<"r","e","u","t","e","r","s">>,
    <<"a","p">>, <<"n","e","w","s">> }

\* _assess_content_quality(result)
AssessContentQuality(result) ==
  LET title  == GetStr(result, "title")
      body   == GetStr(result, "body")
      url    == GetStr(result, "href")
      length == (IF Len(body) > 100 THEN Tenths(2) ELSE 0)
                  + (IF Len(title) > 20 THEN Tenths(1) ELSE 0)
      domain == IF AnyIn(TopLevelDomains, url) THEN Tenths(3)
                ELSE IF AnyIn(ReferenceSites, url) THEN Tenths(2)
                ELSE 0
  IN  Min(Tenths(5) + length + domain, Unit)

\* The site names tested before the top-level domains.
IdentifySourceTypeSitesFirst(url) ==
  IF Contains(<<"w","i","k","i","p","e","d","i","a">>, url) THEN "encyclopedia"
  ELSE IF Contains(<<"a","r","x","i","v">>, url) THEN "preprint"
  ELSE IF Contains(<<".","e","d","u">>, url) THEN "academic"
  ELSE IF Contains(<<".","g","o","v">>, url) THEN "government"
  ELSE IF Contains(<<".","o","r","g">>, url) THEN "organization"
  ELSE IF AnyIn(NewsSites, url) THEN "news"
  ELSE "general"

\* _identify_source_type(url) of search_tool.py
IdentifySourceType(url) ==
  IF Contains(<<".","e","d","u">>, url) THEN "academic"
  ELSE IF Contains(<<".","g","o","v">>, url) THEN "government"
  ELSE IF Contains(<<".","o","r","g">>, url) THEN "organization"
  ELSE IF Contains(<<"w","i","k","i","p","e","d","i","a">>, url) THEN "encyclopedia"
  ELSE IF Contains(<<"a","r","x","i","v">>, url) THEN "preprint"
  ELSE IF AnyIn(NewsSites, url) THEN "news"
  ELSE "general"

\* AdvancedWebSearchTool._identify_source_type(url) of main.py
MainIdentifySourceType(url) ==
  IF Contains(<<".","e","d","u">>, url) THEN "academic"
  ELSE IF Contains(<<".","g","o","v">>, url) THEN "government"
  ELSE IF Contains(<<".","o","r","g">>, url) THEN "organization"
  ELSE IF Contains(<<"w","i","k","i","p","e","d","i","a">>, url) THEN "encyclopedia"
  ELSE IF Contains(<<"a","r","x","i","v">>, url) THEN "preprint"
  ELSE "general"

\* The processed_result dict of advanced_web_search; only built when
\* _calculate_relevance returned.
ProcessedResult(q, result) ==
  [title           |-> GetStr(result, "title"),
   snippet         |-> GetStr(result, "body"),
   url             |-> GetStr(result, "href"),
   relevance_score |-> CalculateRelevance(q, result).value,
   content_quality |-> AssessContentQuality(result),
   source_type     |-> IdentifySourceType(GetStr(result, "href"))]

\* The processed_result dict of AdvancedWebSearchTool.search
MainProcessedResult(q, result) ==
  [title           |-> GetStr(result, "title"),
   snippet         |-> GetStr(result, "body"),
   url             |-> GetStr(result, "href"),
   relevance_score |-> MainCalculateRelevance(q, result).value,
   source_type     |-> MainIdentifySourceType(GetStr(result, "href"))]

\* The sort key of advanced_web_search, (relevance + quality) / 2, doubled.
CombinedScore(r) == r.relevance_score + r.content_quality

\* The sort key of AdvancedWebSearchTool.search
RelevanceOnly(r) == r.relevance_score

\* list.sort(key=..., reverse=True) on a list of <<key, element>> pairs: a
\* stable sort, so an element goes behind every element already placed whose
\* key is not smaller.
RECURSIVE InsertDescending(_, _)
InsertDescending(sorted, x) ==
  IF sorted = <<>> THEN <<x>>
  ELSE IF Head(sorted)[1] >= x[1]
       THEN <<Head(sorted)>> \o InsertDescending(Tail(sorted), x)
       ELSE <<x>> \o sorted

SortDescending(keyed) ==
  LET S[i \in 0..Len(keyed)] ==
        IF i = 0 THEN <<>> ELSE InsertDescending(S[i - 1], keyed[i])
  IN  [i \in 1..Len(keyed) |-> S[Len(keyed)][i][2]]

\* A descending sort made of an ascending stable sort and a reversal: it turns
\* the elements of equal key around.
SortAscendingThenReverse(results) ==
  LET n      == Len(results)
      sorted == SortDescending(
                  [i \in 1..n |-> <<0 - CombinedScore(results[i]), results[i]>>])
  IN  [i \in 1..n |-> sorted[n + 1 - i]]

\* results.sort(key=lambda x: (x["relevance_score"] + x["content_quality"]) / 2,
\*              reverse=True)
SortByCombinedScore(results) ==
  SortDescending([i \in 1..Len(results) |-> <<CombinedScore(results[i]), results[i]>>])

\* results.sort(key=lambda x: x["relevance_score"], reverse=True)
SortByRelevance(results) ==
  SortDescending([i \in 1..Len(results) |-> <<RelevanceOnly(results[i]), results[i]>>])

RECURSIVE SumRelevance(_)
SumRelevance(results) ==
  IF results = <<>> THEN 0
  ELSE Head(results).relevance_score + SumRelevance(Tail(results))

\* What the provider call ddgs.text(query, max_results=limit) does: it raises,
\* or it returns at most `limit` hits.
ProviderOutcomes(limit) ==
  { [raised |-> TRUE, error |-> "provider error"] }
    \cup { [raised |-> FALSE, hits |-> h] :
             h \in UNION { [1..n -> HitCatalogue] : n \in 0..Min(limit, MaxHits) } }

\* advanced_web_search(query, max_results) once the provider returned `hits`.
AdvancedWebSearchOutput(q, most, hits) ==
  LET taken == Slice(hits, 1, Min(most, Len(hits)))
  IN  IF taken /= <<>> /\ CalculateRelevance(q, taken[1]).raised
      THEN [error |-> "Search failed: float division by zero", query |-> q]
      ELSE LET results == SortByCombinedScore(
                            [i \in 1..Len(taken) |-> ProcessedResult(q, taken[i])])
           IN  [metadata |-> [query         |-> q,
                              total_results |-> Len(results),
                              avg_relevance |->
                                IF results = <<>> THEN 0
                                ELSE SumRelevance(results) \div Len(results)],
                results  |-> results]

\* AdvancedWebSearchTool.search(query, max_results) once the provider returned.
MainSearchOutput(q, hits) ==
  LET results == SortByRelevance(
                   [i \in 1..Len(hits) |-> MainProcessedResult(q, hits[i])])
  IN  [query |-> q, total_results |-> Len(results), results |-> results]

InitSearch ==
  /\ query \in Queries
  /\ max_results \in 1..MaxResults
  /\ search_results = <<>>
  /\ search_pc = "call"
  /\ searched_by = "none"
  /\ search_output = <<>>

IdleSearch ==
  /\ query = <<>>
  /\ max_results = 0
  /\ search_results = <<>>
  /\ search_pc = "idle"
  /\ searched_by = "none"
  /\ search_output = <<>>

\* One call of advanced_web_search (search_tool.py), from entry to return.
AdvancedWebSearch ==
  /\ search_pc = "call"
  /\ \E outcome \in ProviderOutcomes(2 * max_results) :
       IF outcome.raised
       THEN /\ search_results' = <<>>
            /\ search_output' = [error |-> "Search failed: provider error",
                                 query |-> query]
       ELSE /\ search_results' = outcome.hits
            /\ search_output' = AdvancedWebSearchOutput(query, max_results, outcome.hits)
  /\ search_pc' = "return"
  /\ searched_by' = "advanced_web_search"
  /\ UNCHANGED <<query, max_results, notSearchVars>>

\* One call of AdvancedWebSearchTool.search (main.py), from entry to return.
MainSearch ==
  /\ search_pc = "call"
  /\ \E outcome \in ProviderOutcomes(max_results) :
       IF outcome.raised
       THEN /\ search_results' = <<>>
            /\ search_output' = [error |-> "Search failed: provider error",
                                 query |-> query]
       ELSE /\ search_results' = outcome.hits
            /\ search_output' = MainSearchOutput(query, outcome.hits)
  /\ search_pc' = "return"
  /\ searched_by' = "AdvancedWebSearchTool.search"
  /\ UNCHANGED <<query, max_results, notSearchVars>>

\* ------------------------------------------------------------------------
\* Citation validator (citation_validator_tool.py): component extraction
\* ------------------------------------------------------------------------
\* The most fragments a citation text is built from.
MaxFrags == 6

\* The character ACCOUNT OF (U+2100), one character of a str, written here by
\* its code point; its NFKC normal form is the three characters a/c.
AccountOf == "U+2100"

CitationFragments ==
  << <<"S","m","i","t","h"," ">>,
     <<"J","."," ","D","o","e"," ">>,
     <<"(","2","0",")"," ">>,
     <<"(","2","0","2","0",")","."," ">>,
     <<"V","o","l","."," ","1","2"," ","(","2","0","2","0",")"," ">>,
     <<"1","9","9","9"," ">>,
     <<"\"","D","e","e","p"," ","N","e","t","s","\""," ">>,
     <<"*","N","a","t","u","r","e","*"," ">>,
     <<"_","S","c","i","e","n","c","e","_"," ">>,
     <<"d","o","i",":","1","0",".","1","2","3","4","/","a","b"," ">>,
     <<"h","t","t","p","s",":","/","/","u",AccountOf,"@","b",".","o","r","g","/","q"," ">>,
     <<"h","t","t","p","s",":","/","/","a",".","o","r","g","/","p">> >>

CitationTexts ==
  { Concat(Pick(CitationFragments, c)) : c \in Choices(CitationFragments, MaxFrags) }

\* The last position of the run of characters outside `stop` that starts at i
\* (i - 1 when s[i] is in `stop` or i is past the end).
RunEnd(s, i, stop) ==
  LET stops == { k \in i..Len(s) : s[k] \in stop }
  IN  IF stops = {} THEN Len(s) ELSE SetMin(stops) - 1

\* The same for the run of characters of `class`.
RunEndIn(s, i, class) ==
  LET stops == { k \in i..Len(s) : s[k] \notin class }
  IN  IF stops = {} THEN Len(s) ELSE SetMin(stops) - 1

\* \b at the gap before position i (between s[i-1] and s[i])
WordBoundary(s, i) ==
  LET before == i > 1 /\ i - 1 <= Len(s) /\ s[i - 1] \in WordChars
      after  == i >= 1 /\ i <= Len(s) /\ s[i] \in WordChars
  IN  before /= after

\* The characters the negated class of url_pattern excludes: whitespace and
\* < > " { } | \ ^ [ ] (and the backquote, which no text of this model holds
\* and a string of this language cannot hold).
UrlStop == Whitespace \cup {"<", ">", "\"", "{", "}", "|", "\\", "^", "[", "]"}

\* The length of the prefix https?:// at position i, 0 when there is none.
UrlPrefix(s, i) ==
  IF HasAt(s, i, <<"h","t","t","p","s",":","/","/">>) THEN 8
  ELSE IF HasAt(s, i, <<"h","t","t","p",":","/","/">>) THEN 7
  ELSE 0

\* re.findall(url_pattern, citation)[0], as <<match>>, or <<>> for no match
FirstUrl(s) ==
  LET starts == { i \in 1..Len(s) :
                    /\ UrlPrefix(s, i) > 0
                    /\ RunEnd(s, i + UrlPrefix(s, i), UrlStop) >= i + UrlPrefix(s, i) }
  IN  IF starts = {} THEN <<>>
      ELSE LET i == SetMin(starts)
           IN  << SubSeq(s, i, RunEnd(s, i + UrlPrefix(s, i), UrlStop)) >>

\* The positions where year_pattern \b(19|20)\d{2}\b matches.
YearMatches(s) ==
  { i \in 1..(Len(s) - 3) :
      /\ WordBoundary(s, i)
      /\ (HasAt(s, i, <<"1","9">>) \/ HasAt(s, i, <<"2","0">>))
      /\ s[i + 2] \in Digits
      /\ s[i + 3] \in Digits
      /\ WordBoundary(s, i + 4) }

\* re.findall(year_pattern, citation)[-1]: the pattern has one group, and
\* findall returns the text of that group, (19|20), for each match.
LastYear(s) ==
  IF YearMatches(s) = {} THEN <<>>
  ELSE LET i == SetMax(YearMatches(s)) IN << SubSeq(s, i, i + 1) >>

\* re.findall(doi_pattern, citation)[0] for 10\.\d{4,}/[^\s]+
FirstDoi(s) ==
  LET digitsEnd(i) == RunEndIn(s, i + 3, Digits)
      starts == { i \in 1..Len(s) :
                    /\ HasAt(s, i, <<"1","0",".">>)
                    /\ digitsEnd(i) - (i + 3) + 1 >= 4
                    /\ HasAt(s, digitsEnd(i) + 1, <<"/">>)
                    /\ RunEnd(s, digitsEnd(i) + 2, Whitespace) >= digitsEnd(i) + 2 }
  IN  IF starts = {} THEN <<>>
      ELSE LET i == SetMin(starts)
           IN  << SubSeq(s, i, RunEnd(s, digitsEnd(i) + 2, Whitespace)) >>

\* re.findall(d ([^d]+) d, citation)[0] for a one-character delimiter d: the
\* text between the first d that is followed by a non-empty run without d and
\* then by d.
FirstDelimited(s, d) ==
  LET starts == { i \in 1..Len(s) :
                    /\ s[i] = d
                    /\ RunEnd(s, i + 1, {d}) >= i + 1
                    /\ RunEnd(s, i + 1, {d}) < Len(s) }
  IN  IF starts = {} THEN <<>>
      ELSE LET i == SetMin(starts)
           IN  << SubSeq(s, i + 1, RunEnd(s, i + 1, {d})) >>

\* The for loop over a list of patterns that stops at the first one that matches.
RECURSIVE FirstOfPatterns(_, _)
FirstOfPatterns(s, delimiters) ==
  IF delimiters = <<>> THEN <<>>
  ELSE IF FirstDelimited(s, Head(delimiters)) /= <<>>
       THEN FirstDelimited(s, Head(delimiters))
       ELSE FirstOfPatterns(s, Tail(delimiters))

\* title_patterns: both patterns of the source delimit by the character ".
TitleDelimiters == <<"\"", "\"">>

\* journal_patterns
JournalDelimiters == <<"*", "_">>

\* re.findall(f'([^.]+?)\\s*\\({year}\\)', citation)[0].strip(): the group is
\* lazy, so from the leftmost start that can match it is the shortest text
\* without "." that whitespace and then "(year)" follow.
FirstAuthor(s, year) ==
  LET paren == <<"(">> \o year \o <<")">>
      ends  == { q \in 1..Len(s) : HasAt(s, q, paren) }
      \* the first position of the whitespace run that ends right before q
      ws(q) == SetMin({ t \in 1..q : \A k \in t..(q - 1) : s[k] \in Whitespace })
      \* the shortest group from p that reaches "(year)" at q ends here
      last(p, q) == IF p >= ws(q) - 1 THEN p ELSE ws(q) - 1
      fits(p, q) == p <= q - 1 /\ \A k \in p..last(p, q) : s[k] /= "."
      starts == { p \in 1..Len(s) : \E q \in ends : fits(p, q) }
  IN  IF starts = {} THEN <<>>
      ELSE LET p == SetMin(starts)
               e == SetMin({ last(p, q) : q \in { x \in ends : fits(p, x) } })
           IN  << Strip(SubSeq(s, p, e)) >>

ComponentKeys == {"url", "year", "doi", "title", "author", "journal"}

\* _extract_citation_components(citation): a dict that holds a key only when
\* its pattern matched.
ExtractCitationComponents(s) ==
  LET year  == LastYear(s)
      found == [url     |-> FirstUrl(s),
                year    |-> year,
                doi     |-> FirstDoi(s),
                title   |-> FirstOfPatterns(s, TitleDelimiters),
                author  |-> IF year /= <<>> THEN FirstAuthor(s, year[1]) ELSE <<>>,
                journal |-> FirstOfPatterns(s, JournalDelimiters)]
  IN  [k \in { x \in ComponentKeys : found[x] /= <<>> } |-> found[k][1]]

\* components.get(key) as a condition: the key is there and its text is not empty.
Has(components, key) == key \in DOMAIN components /\ components[key] /= <<>>

\* ------------------------------------------------------------------------
\* Citation validator: required components and the component score
\* ------------------------------------------------------------------------
CommonRequired == <<"author", "title", "year">>

\* The keys of the dict style_requirements.
StyleKeys ==
  { <<"A","P","A">>, <<"M","L","A">>, <<"C","h","i","c","a","g","o">> }

\* _get_required_components(style): style_requirements.get(style.upper(),
\* common_required), every entry of the dict being common_required + ["source"].
GetRequiredComponents(st) ==
  IF Upper(st) \in StyleKeys THEN CommonRequired \o <<"source">> ELSE CommonRequired

\* _validate_components(components, required, validation_result): the score
\* it returns and what it appends to the strengths and issues of the record.
ValidateComponents(components, required) ==
  LET total_required == Len(required)
      Loop[i \in 0..Len(required)] ==
        IF i = 0 THEN [score |-> 0, strengths |-> <<>>, issues |-> <<>>]
        ELSE IF Has(components, required[i])
             THEN [Loop[i - 1] EXCEPT
                     !.score = @ + (Unit \div total_required),
                     !.strengths = Append(@, <<"Has ", required[i]>>)]
             ELSE [Loop[i - 1] EXCEPT
                     !.issues = Append(@, <<"Missing ", required[i]>>)]
      looped  == Loop[Len(required)]
      withDoi == IF Has(components, "doi")
                 THEN [looped EXCEPT !.score = @ + Tenths(1),
                                     !.strengths = Append(@, <<"Includes DOI">>)]
                 ELSE looped
  IN  IF Has(components, "url")
      THEN [withDoi EXCEPT !.score = @ + Hundredths(5),
                           !.strengths = Append(@, <<"Includes URL">>)]
      ELSE withDoi

\* ------------------------------------------------------------------------
\* Citation validator: the URL check
\* ------------------------------------------------------------------------
StatusCodes == {200, 404}

\* str(status_code)
StatusText(code) == IF code = 200 THEN "200" ELSE "404"

\* round(time.time() - start_time, 2), in hundredths of a second
ResponseTimes == {7, 150}

\* What requests.head(url, timeout=10, allow_redirects=True) does: it returns
\* a response, or it raises Timeout, ConnectionError or another exception.
HeadOutcomes ==
  { [kind |-> "response", status_code |-> c, elapsed |-> t] :
      c \in StatusCodes, t \in ResponseTimes }
    \cup { [kind |-> "Timeout"], [kind |-> "ConnectionError"],
           [kind |-> "Exception", message |-> "Invalid URL"] }

\* The first position at or after i that holds a character of `stop`,
\* Len(s) + 1 when there is none.
FirstOf(s, i, stop) == RunEnd(s, i, stop) + 1

\* urlparse(url) for a url that url_pattern matched: scheme://netloc/path...
UrlParse(url) ==
  LET colon  == FirstOf(url, 1, {":"})
      start  == colon + 3
      ends   == FirstOf(url, start, {"/", "?", "#"})
      stop   == FirstOf(url, ends, {"?", "#"})
      whole  == Slice(url, ends, stop - 1)
      slash  == { k \in 1..Len(whole) : whole[k] = "/" }
      semi   == FirstOf(whole, IF slash = {} THEN 1 ELSE SetMax(slash), {";"})
  IN  [scheme |-> Lower(Slice(url, 1, colon - 1)),
       netloc |-> Slice(url, start, ends - 1),
       path   |-> Slice(whole, 1, semi - 1)]

\* The characters of the model whose NFKC normal form holds one of / ? # @ :
SplitsUnderNfkc == {AccountOf}

\* urlparse(url) raises ValueError when the netloc holds a character that
\* turns into a delimiter under NFKC normalization (_checknetloc).
UrlParseRaises(url) ==
  \E i \in 1..Len(UrlParse(url).netloc) : UrlParse(url).netloc[i] \in SplitsUnderNfkc

\* str(e) of that ValueError
NetlocError(url) ==
  <<"netloc '">> \o UrlParse(url).netloc
    \o <<"' contains invalid characters under NFKC normalization">>

\* A URL check that records nothing about a HEAD request that raised.
ValidateUrlAccessibilitySilent(url, head) ==
  LET initial == [url           |-> url,
                  is_accessible |-> FALSE,
                  response_time |-> <<>>,
                  status_code   |-> <<>>,
                  error         |-> <<>>,
                  metadata      |-> <<>>]
  IN  IF head.kind = "response"
      THEN [initial EXCEPT
              !.response_time = <<head.elapsed>>,
              !.status_code   = <<head.status_code>>,
              !.is_accessible = (head.status_code = 200),
              !.error         = IF head.status_code /= 200
                                THEN <<"HTTP ", StatusText(head.status_code)>>
                                ELSE <<>>]
      ELSE initial

\* _validate_url_accessibility(url), given what the HEAD request did
ValidateUrlAccessibility(url, head) ==
  LET initial == [url           |-> url,
                  is_accessible |-> FALSE,
                  response_time |-> <<>>,
                  status_code   |-> <<>>,
                  error         |-> <<>>,
                  metadata      |-> <<>>]
  IN  IF head.kind = "response"
      THEN LET answered ==
                 [initial EXCEPT
                    !.response_time = <<head.elapsed>>,
                    !.status_code   = <<head.status_code>>,
                    !.is_accessible = (head.status_code = 200),
                    !.error         = IF head.status_code /= 200
                                      THEN <<"HTTP ", StatusText(head.status_code)>>
                                      ELSE <<>>]
           IN  IF UrlParseRaises(url)
               THEN [answered EXCEPT !.error = NetlocError(url)]
               ELSE [answered EXCEPT
                       !.metadata = [domain    |-> UrlParse(url).netloc,
                                     is_secure |-> UrlParse(url).scheme
                                                     = <<"h","t","t","p","s">>,
                                     path      |-> UrlParse(url).path]]
      ELSE IF head.kind = "Timeout"
      THEN [initial EXCEPT !.error = <<"Request timeout">>]
      ELSE IF head.kind = "ConnectionError"
      THEN [initial EXCEPT !.error = <<"Connection failed">>]
      ELSE [initial EXCEPT !.error = <<head.message>>]

\* ------------------------------------------------------------------------
\* Citation validator: formatting
\* ------------------------------------------------------------------------
\* The readings of datetime.now() a call may get, as the texts strftime makes
\* of them: dmy for '%d %b %Y', mdy for '%B %d, %Y'.
ClockReadings ==
  << [dmy |-> <<"0","1"," ","N","o","v"," ","2","0","2","6">>,
      mdy |-> <<"N","o","v","e","m","b","e","r"," ","0","1",","," ","2","0","2","6">>],
     [dmy |-> <<"1","5"," ","J","a","n"," ","2","0","2","7">>,
      mdy |-> <<"J","a","n","u","a","r","y"," ","1","5",","," ","2","0","2","7">>] >>

Clock == Range(ClockReadings)

\* parts.append(text) when components.get(key)
Part(components, key, text) == IF Has(components, key) THEN <<text>> ELSE <<>>

\* _format_apa_citation(components)
FormatApaCitation(c) ==
  LET parts ==
        Part(c, "author", c["author"])
          \o Part(c, "year", <<"(">> \o c["year"] \o <<")">>)
          \o Part(c, "title", c["title"])
          \o Part(c, "journal", <<"*">> \o c["journal"] \o <<"*">>)
          \o Part(c, "url",
                  <<"R","e","t","r","i","e","v","e","d"," ","f","r","o","m"," ">>
                    \o c["url"])
  IN  Join(<<".", " ">>, parts) \o <<".">>

\* _format_mla_citation(components)
FormatMlaCitation(c, now) ==
  LET parts ==
        Part(c, "author", c["author"])
          \o Part(c, "title", <<"\"">> \o c["title"] \o <<"\"">>)
          \o Part(c, "journal", <<"*">> \o c["journal"] \o <<"*">>)
          \o Part(c, "year", c["year"])
          \o Part(c, "url", <<"W","e","b","."," ">> \o now.dmy)
  IN  Join(<<",", " ">>, parts) \o <<".">>

\* _format_chicago_citation(components)
FormatChicagoCitation(c, now) ==
  LET parts ==
        Part(c, "author", c["author"])
          \o Part(c, "title", <<"\"">> \o c["title"] \o <<"\"">>)
          \o Part(c, "journal", <<"*">> \o c["journal"] \o <<"*">>)
          \o Part(c, "year", <<"(">> \o c["year"] \o <<")">>)
          \o Part(c, "url",
                  <<"a","c","c","e","s","s","e","d"," ">> \o now.mdy
                    \o <<",", " ">> \o c["url"])
  IN  Join(<<",", " ">>, parts) \o <<".">>

\* A formatting that falls back to MLA for a style it does not know.
FormatCitationMlaFallback(c, st, now) ==
  IF Upper(st) = <<"A","P","A">> THEN FormatApaCitation(c)
  ELSE IF Upper(st) = <<"C","H","I","C","A","G","O">> THEN FormatChicagoCitation(c, now)
  ELSE FormatMlaCitation(c, now)

\* _format_citation(components, style)
FormatCitation(c, st, now) ==
  IF Upper(st) = <<"A","P","A">> THEN FormatApaCitation(c)
  ELSE IF Upper(st) = <<"M","L","A">> THEN FormatMlaCitation(c, now)
  ELSE IF Upper(st) = <<"C","H","I","C","A","G","O">> THEN FormatChicagoCitation(c, now)
  ELSE FormatApaCitation(c)

\* ------------------------------------------------------------------------
\* Citation validator: one citation
\* ------------------------------------------------------------------------
\* The validity threshold of _validate_single_citation, 0.7.
ValidThreshold == Tenths(7)

\* A validity test with another threshold, 0.8.
IsValidFromEightTenths(quality_score) == quality_score >= Tenths(8)

\* is_valid = quality_score >= 0.7
IsValid(quality_score) == quality_score >= ValidThreshold

\* A quality score that is not capped.
QualityScoreUncapped(component_score) == component_score

\* quality_score = min(component_score, 1.0)
QualityScore(component_score) == Min(component_score, Unit)

\* A validation that adds the URL bonus whenever the url was checked, reachable
\* or not.
ValidateExtractedBonusForEveryCheck(components, text, st, citation_number, head, now) ==
  LET required   == GetRequiredComponents(st)
      scored     == ValidateComponents(components, required)
      checked    == Has(components, "url")
      url_validation ==
        IF checked THEN ValidateUrlAccessibility(components["url"], head) ELSE <<>>
      accessible == checked /\ url_validation.is_accessible
      component_score == scored.score + (IF checked THEN Tenths(1) ELSE 0)
      quality_score   == QualityScore(component_score)
  IN  [citation_number    |-> citation_number,
       original_citation  |-> text,
       is_valid           |-> IsValid(quality_score),
       quality_score      |-> quality_score,
       issues             |-> IF checked /\ ~accessible
                              THEN Append(scored.issues,
                                          <<"URL not accessible: ">>
                                            \o url_validation.error)
                              ELSE scored.issues,
       strengths          |-> IF accessible
                              THEN Append(scored.strengths, <<"URL is accessible">>)
                              ELSE scored.strengths,
       formatted_citation |-> FormatCitation(components, st, now),
       metadata           |-> components,
       url_validation     |-> url_validation]

\* _validate_single_citation(citation, style, citation_number) from the
\* components its first statement extracted, given what the HEAD request of
\* its URL check did and what the clock read.
ValidateExtracted(components, text, st, citation_number, head, now) ==
  LET required   == GetRequiredComponents(st)
      scored     == ValidateComponents(components, required)
      checked    == Has(components, "url")
      url_validation ==
        IF checked THEN ValidateUrlAccessibility(components["url"], head) ELSE <<>>
      accessible == checked /\ url_validation.is_accessible
      component_score == scored.score + (IF accessible THEN Tenths(1) ELSE 0)
      quality_score   == QualityScore(component_score)
  IN  [citation_number    |-> citation_number,
       original_citation  |-> text,
       is_valid           |-> IsValid(quality_score),
       quality_score      |-> quality_score,
       issues             |-> IF checked /\ ~accessible
                              THEN Append(scored.issues,
                                          <<"URL not accessible: ">>
                                            \o url_validation.error)
                              ELSE scored.issues,
       strengths          |-> IF accessible
                              THEN Append(scored.strengths, <<"URL is accessible">>)
                              ELSE scored.strengths,
       formatted_citation |-> FormatCitation(components, st, now),
       metadata           |-> components,
       url_validation     |-> url_validation]

\* The citation_style arguments of the calls.
Styles ==
  { <<"A","P","A">>, <<"m","l","a">>, <<"C","h","i","c","a","g","o">>,
    <<"I","E","E","E">> }

\* Every way to write a text in upper and lower case letters.
CaseVariants(s) ==
  { [i \in 1..Len(s) |-> IF i \in up THEN UpperChar(s[i]) ELSE LowerChar(s[i])] :
      up \in SUBSET (1..Len(s)) }

\* The style arguments _get_required_components is studied on.
StyleVariants ==
  CaseVariants(<<"a","p","a">>) \cup CaseVariants(<<"m","l","a">>)
    \cup CaseVariants(<<"c","h","i","c","a","g","o">>)
    \cup { <<>>, <<"I","E","E","E">>, <<"a","p","a","7">> }

InitCite ==
  /\ citation \in CitationTexts
  /\ style \in Styles
  /\ cite_pc = "call"
  /\ required_components = <<>>
  /\ validation_result = <<>>

InitStyle ==
  /\ citation = <<>>
  /\ style \in StyleVariants
  /\ cite_pc = "call"
  /\ required_components = <<>>
  /\ validation_result = <<>>

IdleCite ==
  /\ citation = <<>>
  /\ style = <<>>
  /\ cite_pc = "idle"
  /\ required_components = <<>>
  /\ validation_result = <<>>

\* One call of _validate_single_citation, from entry to return.
ValidateCitation ==
  /\ cite_pc = "call"
  /\ \E components \in {ExtractCitationComponents(citation)} :
       \E head \in HeadOutcomes, now \in Clock :
         validation_result' =
           ValidateExtracted(components, citation, style, 1, head, now)
  /\ required_components' = GetRequiredComponents(style)
  /\ cite_pc' = "return"
  /\ UNCHANGED <<citation, style, notCiteVars>>

\* One call of _get_required_components(style).
RequiredComponents ==
  /\ cite_pc = "call"
  /\ required_components' = GetRequiredComponents(style)
  /\ cite_pc' = "return"
  /\ UNCHANGED <<citation, style, validation_result, notCiteVars>>

\* ------------------------------------------------------------------------
\* Citation validator: a batch of citations (citation_validator)
\* ------------------------------------------------------------------------
\* The most citations a batch text is built from.
MaxBatch == 2

\* The character BULLET (U+2022), one character of a str, written here by its
\* code point.
Bullet == "U+2022"

\* separators = ['\n\n', '\n•', '\n-', '\n1.', '\n2.', '\n3.']
Separators ==
  << <<"\n","\n">>, <<"\n",Bullet>>, <<"\n","-">>,
     <<"\n","1",".">>, <<"\n","2",".">>, <<"\n","3",".">> >>

RECURSIVE Split(_, _)
\* s.split(sep): the texts between the occurrences of sep, taken from the left.
Split(s, sep) ==
  LET at == { i \in 1..Len(s) : HasAt(s, i, sep) }
  IN  IF at = {} THEN <<s>>
      ELSE <<Slice(s, 1, SetMin(at) - 1)>>
             \o Split(Slice(s, SetMin(at) + Len(sep), Len(s)), sep)

RECURSIVE SplitEach(_, _)
\* new_citations after the inner loop: every citation split by sep
SplitEach(list, sep) ==
  IF list = <<>> THEN <<>>
  ELSE Split(Head(list), sep) \o SplitEach(Tail(list), sep)

\* citations after the loop over the separators
SplitBySeparators(text) ==
  LET Pieces[k \in 0..Len(Separators)] ==
        IF k = 0 THEN <<text>> ELSE SplitEach(Pieces[k - 1], Separators[k])
  IN  Pieces[Len(Separators)]

\* len(c.strip()) > 20
NoiseLength == 20

\* _parse_citations(citations_text)
ParseCitations(text) ==
  LET Kept(c) == Strip(c) /= <<>> /\ Len(Strip(c)) > NoiseLength
      kept    == SelectSeq(SplitBySeparators(text), Kept)
  IN  [i \in 1..Len(kept) |-> Strip(kept[i])]

\* The citations the batch texts are built from: one with a url, one without,
\* one of exactly 20 characters between blanks, one of fewer.
BatchPieces ==
  { <<"S","m","i","t","h"," ","(","2","0",")"," ","(","2","0","2","0",")","."," ","\"","D","e","e","p"," ","N","e","t","s","\""," ","h","t","t","p","s",":","/","/","a",".","o","r","g","/","p">>,
    <<"J","."," ","D","o","e"," ","1","9","9","9"," ","*","N","a","t","u","r","e","*"," ","d","o","i",":","1","0",".","1","2","3","4","/","a","b">>,
    <<" ","\"","D","e","e","p"," ","N","e","t","s","\""," ","*","N","a","t","u","r","e","*","\t">>,
    <<"V","o","l","."," ","1","2"," ","(","2","0","2","0",")">> }

\* A text that holds every separator.
MixedBatchText ==
  <<"1","9","9","9","\n","-","S","m","i","t","h"," ","(","2","0",")"," ","(","2","0","2","0",")","."," ","\"","D","e","e","p"," ","N","e","t","s","\""," ","h","t","t","p","s",":","/","/","a",".","o","r","g","/","p","\n","3",".","J","."," ","D","o","e"," ","1","9","9","9"," ","*","N","a","t","u","r","e","*"," ","d","o","i",":","1","0",".","1","2","3","4","/","a","b","\n","\n","\n","2",".","\"","D","e","e","p"," ","N","e","t","s","\""," ","_","S","c","i","e","n","c","e","_","\n","1",".","\n",Bullet,"\"","D","e","e","p"," ","N","e","t","s","\""," ","*","N","a","t","u","r","e","*">>

BatchTexts ==
  { Join(sep, pieces) :
      sep \in Range(Separators),
      pieces \in UNION { [1..n -> BatchPieces] : n \in 0..MaxBatch } }
    \cup { MixedBatchText }

\* The citations arguments: a str, or a value of another type.
BatchInputs ==
  { [type |-> "str", value |-> t] : t \in BatchTexts }
    \cup { [type |-> "NoneType"], [type |-> "int"] }

\* a / b of two numbers, kept exact
Quotient(a, b) == [num |-> a, den |-> b]

\* 0 and 0.0
Zero == Quotient(0, 1)

\* q < tenths / 10
Below(q, tenths) == 10 * q.num < tenths * Unit * q.den

RECURSIVE SumQuality(_)
\* sum(citation.get("quality_score", 0) for citation in validated_citations)
SumQuality(validated) ==
  IF validated = <<>> THEN 0
  ELSE Head(validated).quality_score + SumQuality(Tail(validated))

\* The mean without the test for the empty list.
CalculateOverallQualityUnguarded(validated) ==
  Quotient(SumQuality(validated), Len(validated))

\* _calculate_overall_quality(validated_citations)
CalculateOverallQuality(validated) ==
  IF validated = <<>> THEN Zero
  ELSE Quotient(SumQuality(validated), Len(validated))

\* Recommendations whose completeness rule fires below 0.9.
GenerateRecommendationsBelowNineTenths(issues, quality_score, st) ==
  LET Found(issue)    == \E i \in 1..Len(issues) : issues[i] = issue
      url_issues      == \E i \in 1..Len(issues) : issues[i][1] = "URL not accessible: "
      When(cond, text) == IF cond THEN << <<text>> >> ELSE <<>>
  IN  When(Found(<<"Missing ", "author">>),
           "Add author information for incomplete citations")
        \o When(Found(<<"Missing ", "year">>),
                "Include publication years for all sources")
        \o When(Found(<<"Missing ", "title">>),
                "Provide complete titles for all cited works")
        \o When(url_issues, "Verify all URLs are accessible and current")
        \o When(Below(quality_score, 9),
                "Review citations for completeness and accuracy")
        \o When(Below(quality_score, 5),
                "Consider using more authoritative sources")
        \o << <<"Ensure all citations follow ">> \o st
                \o <<" formatting guidelines">> >>

\* _generate_recommendations(validation_results)
GenerateRecommendations(issues, quality_score, st) ==
  LET Found(issue)    == \E i \in 1..Len(issues) : issues[i] = issue
      url_issues      == \E i \in 1..Len(issues) : issues[i][1] = "URL not accessible: "
      When(cond, text) == IF cond THEN << <<text>> >> ELSE <<>>
  IN  When(Found(<<"Missing ", "author">>),
           "Add author information for incomplete citations")
        \o When(Found(<<"Missing ", "year">>),
                "Include publication years for all sources")
        \o When(Found(<<"Missing ", "title">>),
                "Provide complete titles for all cited works")
        \o When(url_issues, "Verify all URLs are accessible and current")
        \o When(Below(quality_score, 7),
                "Review citations for completeness and accuracy")
        \o When(Below(quality_score, 5),
                "Consider using more authoritative sources")
        \o << <<"Ensure all citations follow ">> \o st
                \o <<" formatting guidelines">> >>

\* No HEAD request: the citation has no url.
NoHead == [kind |-> "none"]

\* What the HEAD requests of a batch may do, one per citation with a url.
HeadsFor(extracted) ==
  { heads \in [1..Len(extracted) -> HeadOutcomes \cup {NoHead}] :
      \A i \in 1..Len(extracted) :
        heads[i] = NoHead <=> ~Has(extracted[i], "url") }

\* The clock readings of a batch, one per citation, in the order of time.
ReadingsFor(extracted) ==
  { at \in [1..Len(extracted) -> 1..Len(ClockReadings)] :
      \A i \in 1..Len(extracted) :
        /\ i > 1 => at[i - 1] <= at[i]
        /\ ~Has(extracted[i], "url") => at[i] = (IF i = 1 THEN 1 ELSE at[i - 1]) }

\* The loop numbering its records from 0, as enumerate does.
ValidateAllNumberedFromZero(list, extracted, st, heads, at) ==
  LET V[i \in 0..Len(list)] ==
        IF i = 0 THEN <<>>
        ELSE Append(V[i - 1],
                    ValidateExtracted(extracted[i], list[i], st, i - 1, heads[i],
                                      ClockReadings[at[i]]))
  IN  V[Len(list)]

\* validated_citations after the loop of citation_validator
ValidateAll(list, extracted, st, heads, at) ==
  LET V[i \in 0..Len(list)] ==
        IF i = 0 THEN <<>>
        ELSE Append(V[i - 1],
                    ValidateExtracted(extracted[i], list[i], st, i, heads[i],
                                      ClockReadings[at[i]]))
  IN  V[Len(list)]

\* The dict citation_validator returns (without its timestamp) when nothing
\* raised.
CitationValidatorOutput(input, st, validated) ==
  LET total   == Len(validated)
      valid   == Cardinality({ i \in 1..total : validated[i].is_valid })
      issues  == Concat([i \in 1..total |-> validated[i].issues])
      overall == CalculateOverallQuality(validated)
  IN  [citation_style       |-> st,
       input_citations      |-> input,
       validation_summary   |->
         [total_citations       |-> total,
          valid_citations       |-> valid,
          validation_rate       |-> IF total > 0 THEN Quotient(valid, total) ELSE Zero,
          overall_quality_score |-> overall,
          needs_improvement     |-> valid < total],
       validated_citations  |-> validated,
       issues_found         |-> issues,
       recommendations      |-> GenerateRecommendations(issues, overall, st)]

\* str(e) of the AttributeError of citations_text.split on a value that is no str
NoSplitError(type) == <<"'", type, "' object has no attribute 'split'">>

InitBatch ==
  /\ citations \in BatchInputs
  /\ citation_style \in Styles
  /\ batch_pc = "call"
  /\ citation_list = <<>>
  /\ head_responses = <<>>
  /\ validation_results = <<>>
  /\ validated_by = "none"

IdleBatch ==
  /\ citations = <<>>
  /\ citation_style = <<>>
  /\ batch_pc = "idle"
  /\ citation_list = <<>>
  /\ head_responses = <<>>
  /\ validation_results = <<>>
  /\ validated_by = "none"

\* One call of citation_validator, from entry to return.
CitationValidator ==
  /\ batch_pc = "call"
  /\ IF citations.type /= "str"
     THEN /\ citation_list' = <<>>
          /\ head_responses' = <<>>
          /\ validation_results' =
               [error |-> <<"Citation validation failed: ">>
                            \o NoSplitError(citations.type),
                input |-> citations]
     ELSE \E list \in {ParseCitations(citations.value)} :
            \E extracted \in {[i \in 1..Len(list) |-> ExtractCitationComponents(list[i])]} :
              \E heads \in HeadsFor(extracted), at \in ReadingsFor(extracted) :
                \E validated \in {ValidateAll(list, extracted, citation_style, heads, at)} :
                  /\ citation_list' = list
                  /\ head_responses' = heads
                  /\ validation_results' =
                       CitationValidatorOutput(citations.value, citation_style, validated)
  /\ batch_pc' = "return"
  /\ validated_by' = "citation_validator"
  /\ UNCHANGED <<citations, citation_style, notBatchVars>>

\* ------------------------------------------------------------------------
\* main.py: CitationValidatorTool
\* ------------------------------------------------------------------------
\* len(c.strip()) > 20 of CitationValidatorTool._parse_citations
MinCitationLine == 20

\* CitationValidatorTool._parse_citations(text)
MainParseCitations(text) ==
  LET lines    == Split(text, <<"\n">>)
      stripped == [k \in 1..Len(lines) |-> Strip(lines[k])]
      Kept(c)  == Len(c) > MinCitationLine
  IN  SelectSeq(stripped, Kept)

\* re.search(r'\b(19|20)\d{2}\b', citation).group(): the whole first match
FirstYear(s) ==
  IF YearMatches(s) = {} THEN <<>>
  ELSE LET i == SetMin(YearMatches(s)) IN << SubSeq(s, i, i + 3) >>

\* CitationValidatorTool._extract_components(citation)
MainExtractComponents(s) ==
  LET year  == FirstYear(s)
      found == [url    |-> FirstUrl(s),
                year   |-> year,
                title  |-> FirstDelimited(s, "\""),
                author |-> IF year /= <<>> THEN FirstAuthor(s, year[1]) ELSE <<>>]
  IN  [k \in { x \in {"url", "year", "title", "author"} : found[x] /= <<>> }
         |-> found[k][1]]

\* CitationValidatorTool._validate_single_citation(citation, style, number)
MainValidateSingleCitation(text, number) ==
  LET components   == MainExtractComponents(text)
      has_required == Cardinality({ k \in Range(CommonRequired) : Has(components, k) })
  IN  [citation_number  |-> number,
       original         |-> text,
       components_found |-> components,
       has_author       |-> Has(components, "author"),
       has_title        |-> Has(components, "title"),
       has_year         |-> Has(components, "year"),
       has_url          |-> Has(components, "url"),
       is_valid         |-> has_required >= 2,
       quality_score    |-> Quotient(has_required, Len(CommonRequired))]

\* The value CitationValidatorTool.validate returns for a str (without its
\* timestamp): the dict display divides by len(citation_list) for
\* "overall_quality" whatever the length, and the except clause turns the
\* ZeroDivisionError into the error dict.
MainValidateOutput(st, list) ==
  LET validated   == [i \in 1..Len(list) |-> MainValidateSingleCitation(list[i], i)]
      total_valid == Cardinality({ i \in 1..Len(list) : validated[i].is_valid })
  IN  IF Len(list) = 0
      THEN [error |-> <<"Citation validation failed: ", "division by zero">>]
      ELSE [citation_style      |-> st,
            total_citations     |-> Len(list),
            valid_citations     |-> total_valid,
            validation_rate     |-> Quotient(total_valid, Len(list)),
            validated_citations |-> validated,
            overall_quality     |-> IF 10 * total_valid > 7 * Len(list)
                                    THEN "Good" ELSE "Needs Improvement"]

\* One call of CitationValidatorTool.validate, from entry to return.
MainValidate ==
  /\ batch_pc = "call"
  /\ IF citations.type /= "str"
     THEN /\ citation_list' = <<>>
          /\ validation_results' =
               [error |-> <<"Citation validation failed: ">>
                            \o NoSplitError(citations.type)]
     ELSE \E list \in {MainParseCitations(citations.value)} :
            /\ citation_list' = list
            /\ validation_results' = MainValidateOutput(citation_style, list)
  /\ head_responses' = <<>>
  /\ batch_pc' = "return"
  /\ validated_by' = "CitationValidatorTool.validate"
  /\ UNCHANGED <<citations, citation_style, notBatchVars>>

\* ------------------------------------------------------------------------
\* Fact checker: a batch of claims (fact_checker)
\* ------------------------------------------------------------------------
\* The most sentences a claims text is built from.
MaxClaims == 2

SentenceEnds == {".", "!", "?"}

RECURSIVE SplitSentences(_)
\* re.split(r'[.!?]+|\n+', claims_text): the texts between the runs of
\* sentence ends and the runs of newlines.
SplitSentences(s) ==
  LET at == { i \in 1..Len(s) : s[i] \in SentenceEnds \cup {"\n"} }
  IN  IF at = {} THEN <<s>>
      ELSE LET i    == SetMin(at)
               last == CHOOSE j \in i..Len(s) :
                         /\ \A k \in i..j : (s[k] \in SentenceEnds) = (s[i] \in SentenceEnds)
                                            /\ k \in at
                         /\ (j = Len(s) \/ (j + 1) \notin at
                               \/ (s[j + 1] \in SentenceEnds) /= (s[i] \in SentenceEnds))
           IN  <<Slice(s, 1, i - 1)>> \o SplitSentences(Slice(s, last + 1, Len(s)))

\* len(sentence) > 10
ShortSentence == 10

\* _parse_claims(claims_text)
ParseClaims(text) ==
  LET sentences == SplitSentences(text)
      stripped  == [k \in 1..Len(sentences) |-> Strip(sentences[k])]
      Kept(sentence) ==
        /\ Len(sentence) > ShortSentence
        /\ ~HasAt(sentence, 1, <<"h","t","t","p">>)
        /\ ~HasAt(sentence, 1, <<"w","w","w">>)
  IN  SelectSeq(stripped, Kept)

\* The sentences the claims texts are built from.
ClaimSentences ==
  { <<"T","h","e"," ","c","a","t"," ","s","a","t"," ","o","n"," ","a"," ","m","a","t">>,
    <<"A"," ","c","a","t"," ","a","t"," ","n","o","o","n"," ","i","n"," ","s","u","n">>,
    <<"S","h","o","r","t"," ","o","n","e">>,
    <<"w","w","w"," ","c","a","t"," ","s","a","t"," ","o","n"," ","a"," ","m","a","t">> }

SentenceJoints == { <<"."," ">>, <<"\n">>, <<"?","!","\n"," ">> }

ClaimBatchTexts ==
  { Join(joint, sentences) :
      joint \in SentenceJoints,
      sentences \in UNION { [1..n -> ClaimSentences] : n \in 0..MaxClaims } }

RECURSIVE SumConfidence(_)
\* total_confidence after the loop
SumConfidence(results) ==
  IF results = <<>> THEN 0
  ELSE Head(results).confidence_score + SumConfidence(Tail(results))

\* verification_results after the loop of fact_checker
VerifyAll(claim_list, src) ==
  LET V[i \in 0..Len(claim_list)] ==
        IF i = 0 THEN <<>>
        ELSE Append(V[i - 1], VerifyClaimAgainstSources(claim_list[i], src, i))
  IN  V[Len(claim_list)]

\* The dict fact_checker returns (without its timestamp).
FactCheckerOutput(claim_list, results) ==
  [total_claims         |-> Len(claim_list),
   verification_results |-> results,
   overall_reliability  |-> IF Len(claim_list) > 0
                            THEN Quotient(SumConfidence(results), Len(claim_list))
                            ELSE Zero,
   methodology          |-> "cross-reference verification with confidence scoring"]

InitCheck ==
  /\ claims \in ClaimBatchTexts
  /\ claim_sources \in SourceTexts
  /\ check_pc = "call"
  /\ fact_check_results = <<>>

IdleCheck ==
  /\ claims = <<>>
  /\ claim_sources = <<>>
  /\ check_pc = "idle"
  /\ fact_check_results = <<>>

\* One call of fact_checker, from entry to return.
FactChecker ==
  /\ check_pc = "call"
  /\ \E claim_list \in {ParseClaims(claims)} :
       \E results \in {VerifyAll(claim_list, claim_sources)} :
         fact_check_results' = FactCheckerOutput(claim_list, results)
  /\ check_pc' = "return"
  /\ UNCHANGED <<claims, claim_sources, notCheckVars>>

\* ------------------------------------------------------------------------
\* Research workflow (research_workflow.py): execute_research
\* ------------------------------------------------------------------------
\* The most calls of execute_research on one workflow.
MaxRuns == 2

\* The names the module research_workflow binds at import (lines 1-16) and
\* the names its functions read from the module's globals.
ModuleNames ==
  { "Agent", "Task", "Crew", "Process", "ChatOpenAI", "Dict", "Any", "List",
    "Optional", "json", "time", "datetime", "Config", "ResearchControllerAgent",
    "ResearchAgent", "AnalysisAgent", "SynthesisAgent", "advanced_web_search",
    "citation_validator", "content_summarizer", "fact_checker" }

\* The stages of execute_research, in the order of its statements.
Stages ==
  << "query_analysis", "information_gathering", "data_analysis",
     "quality_validation", "synthesis" >>

\* The stages that run a crew (crew.kickoff()), which may raise.
CrewStages == { "information_gathering", "data_analysis", "synthesis" }

StageNumber(stage) == CHOOSE i \in 1..Len(Stages) : Stages[i] = stage

\* A sequencing that validates before it analyses.
StageAfterValidatingFirst(stage) ==
  IF stage = "information_gathering" THEN "quality_validation"
  ELSE IF stage = "quality_validation" THEN "data_analysis"
  ELSE IF stage = "data_analysis" THEN "synthesis"
  ELSE IF stage = "query_analysis" THEN "information_gathering"
  ELSE "compile"

\* The statement execute_research goes to when a stage returned: the next
\* stage, or the compilation of the results after the last one.
StageAfter(stage) ==
  IF StageNumber(stage) < Len(Stages) THEN Stages[StageNumber(stage) + 1]
  ELSE "compile"

\* _update_workflow_status(status, stage)
UpdateWorkflowStatus(state, status, stage) ==
  [state EXCEPT !.status = status, !.current_stage = stage]

\* The workflow_state _handle_workflow_error leaves when it forgets the error.
FailedWorkflowStateWithoutEntry(state, error, q) ==
  UpdateWorkflowStatus(state, "failed", "error_handling")

\* The workflow_state _handle_workflow_error(error, query) leaves.
FailedWorkflowState(state, error, q) ==
  UpdateWorkflowStatus(
    [state EXCEPT !.errors = Append(@, [error       |-> error,
                                        query       |-> q,
                                        workflow_id |-> state.workflow_id])],
    "failed", "error_handling")

\* The dict _handle_workflow_error(error, query) returns (without timestamps).
HandleWorkflowError(state, error, q) ==
  [status               |-> "error",
   error_details        |-> [error |-> error, query |-> q,
                             workflow_id |-> state.workflow_id],
   partial_results      |-> "Workflow failed during execution",
   recovery_suggestions |-> << "Check API key configuration",
                               "Verify network connectivity",
                               "Try with a simpler query",
                               "Check system logs for detailed error information" >>]

\* _extract_citations_from_text(text) calls re.findall: the name re is looked
\* up in the module's globals when the call runs.
ExtractCitationsRaises == "re" \notin ModuleNames

\* str(e) of the NameError
NameErrorText == "name 're' is not defined"

\* _get_performance_metrics() (without execution_time)
GetPerformanceMetrics(state) ==
  [stages_completed |-> state.current_stage,
   error_count      |-> Len(state.errors),
   status           |-> state.status]

\* The dict execute_research compiles after its last stage (without
\* execution_time; what the stages returned is named, not computed).
CompileResults(state, q, depth) ==
  [workflow_metadata   |-> [workflow_id    |-> state.workflow_id,
                            user_query     |-> q,
                            research_depth |-> depth,
                            status         |-> "completed",
                            quality_score  |-> "overall_validation_score"],
   query_analysis      |-> "analysis_result",
   research_findings   |-> "research_result",
   analytical_insights |-> "analysis_data",
   quality_validation  |-> "validation_result",
   final_report        |-> "final_report",
   performance_metrics |-> GetPerformanceMetrics(state)]

UserQueries == { "ai safety", "" }

ResearchDepths == { "quick", "comprehensive" }

\* What analyze_research_request returns: it catches every exception of its
\* crew, so this stage always returns.
AnalysisOutcomes == { "analysis", "fallback_analysis", "error_analysis" }

\* str(int(time.time())) at each second of the model.
SecondsText(n) == <<"1700000000", "1700000001", "1700000002", "1700000003">>[n + 1]

\* ResearchWorkflow.__init__: the workflow_state of a new workflow.
NewWorkflowState(id) ==
  [workflow_id   |-> id,
   status        |-> "initialized",
   current_stage |-> "setup",
   total_stages  |-> 5,
   errors        |-> <<>>]

InitWorkflow ==
  /\ workflow_state = NewWorkflowState(SecondsText(0))
  /\ user_query \in UserQueries
  /\ research_depth \in ResearchDepths
  /\ exec_pc = "idle"
  /\ stage_log = <<>>
  /\ workflow_results = <<>>
  /\ runs = 0

IdleWorkflow ==
  /\ workflow_state = <<>>
  /\ user_query = <<>>
  /\ research_depth = <<>>
  /\ exec_pc = "unused"
  /\ stage_log = <<>>
  /\ workflow_results = <<>>
  /\ runs = 0

\* execute_research is called: its first statement, before the try.
ExecuteResearch ==
  /\ exec_pc \in {"idle", "return"}
  /\ runs < MaxRuns
  /\ runs' = runs + 1
  /\ workflow_state' = UpdateWorkflowStatus(workflow_state, "starting", "query_analysis")
  /\ stage_log' = <<>>
  /\ workflow_results' = <<>>
  /\ exec_pc' = "query_analysis"
  /\ UNCHANGED <<user_query, research_depth, notWorkflowVars>>

\* After a stage returned: the next stage, or, after the last one, the
\* compilation of the results, the status "completed" and the return.
Returned(stage, outcome) ==
  /\ stage_log' = Append(stage_log, [stage |-> stage, outcome |-> outcome])
  /\ IF StageAfter(stage) = "compile"
     THEN /\ workflow_results' = CompileResults(workflow_state, user_query, research_depth)
          /\ workflow_state' = UpdateWorkflowStatus(workflow_state, "completed", "finished")
          /\ exec_pc' = "return"
     ELSE /\ exec_pc' = StageAfter(stage)
          /\ UNCHANGED <<workflow_state, workflow_results>>

\* After a stage raised: the except clause of execute_research.
Raised(stage, error) ==
  /\ stage_log' = Append(stage_log, [stage |-> stage, outcome |-> "raised", error |-> error])
  /\ exec_pc' = "except"
  /\ UNCHANGED <<workflow_state, workflow_results>>

\* Stage 1: self.controller_agent.analyze_research_request(user_query)
QueryAnalysis ==
  /\ exec_pc = "query_analysis"
  /\ \E outcome \in AnalysisOutcomes : Returned("query_analysis", outcome)
  /\ UNCHANGED <<user_query, research_depth, runs, notWorkflowVars>>

\* Stages 2, 3 and 5: a crew is kicked off, and returns its output or raises.
CrewStage ==
  /\ exec_pc \in CrewStages
  /\ \/ Returned(exec_pc, "returned")
     \/ Raised(exec_pc, "crew failed")
  /\ UNCHANGED <<user_query, research_depth, runs, notWorkflowVars>>

\* Stage 4: _execute_validation_phase, whose first statement calls
\* _extract_citations_from_text.
QualityValidation ==
  /\ exec_pc = "quality_validation"
  /\ IF ExtractCitationsRaises
     THEN Raised("quality_validation", NameErrorText)
     ELSE Returned("quality_validation", "returned")
  /\ UNCHANGED <<user_query, research_depth, runs, notWorkflowVars>>

\* except Exception as e: return self._handle_workflow_error(e, user_query)
ExceptWorkflowError ==
  /\ exec_pc = "except"
  /\ \E error \in {stage_log[Len(stage_log)].error} :
       /\ workflow_results' = HandleWorkflowError(workflow_state, error, user_query)
       /\ workflow_state' = FailedWorkflowState(workflow_state, error, user_query)
  /\ exec_pc' = "return"
  /\ UNCHANGED <<user_query, research_depth, stage_log, runs, notWorkflowVars>>

\* ------------------------------------------------------------------------
\* Research workflow (research_workflow.py): WorkflowManager
\* ------------------------------------------------------------------------
\* The most workflows one manager is asked to create.
MaxWorkflows == 3

\* The most seconds that pass while it does.
MaxSeconds == 2

\* The workflow_id arguments of create_workflow: None as <<>>, a str as <<str>>.
WorkflowIdArguments == { <<>>, <<"">>, <<"w1">>, <<"w2">> }

\* workflow_id or workflow.workflow_state["workflow_id"]
RegisteredId(workflow_id, workflow) ==
  IF workflow_id /= <<>> /\ workflow_id[1] /= ""
  THEN workflow_id[1]
  ELSE workflow.workflow_id

\* A registration that keeps the workflow an id already names.
RegisterUnlessTaken(registry, id, workflow) ==
  [k \in DOMAIN registry \cup {id} |->
     IF k \in DOMAIN registry THEN registry[k] ELSE workflow]

\* self.active_workflows[workflow_id] = workflow.  A workflow object is named
\* by its position in created_workflows.
Register(registry, id, workflow) ==
  [k \in DOMAIN registry \cup {id} |-> IF k = id THEN workflow ELSE registry[k]]

\* get_workflow_status(workflow_id)
GetWorkflowStatus(workflow_id) ==
  IF workflow_id \in DOMAIN active_workflows
  THEN created_workflows[active_workflows[workflow_id]].workflow_state
  ELSE [error |-> "Workflow not found"]

\* WorkflowManager.__init__
InitManager ==
  /\ active_workflows = <<>>
  /\ performance_stats = [total_workflows |-> 0, successful_workflows |-> 0]
  /\ created_workflows = <<>>
  /\ clock_seconds = 0

IdleManager ==
  /\ active_workflows = <<>>
  /\ performance_stats = <<>>
  /\ created_workflows = <<>>
  /\ clock_seconds = -1

\* One call of create_workflow(workflow_id): ResearchWorkflow() raises (no API
\* key, an agent that cannot be built) and so does the call, or the workflow
\* is built, registered and counted.
CreateWorkflow ==
  /\ clock_seconds >= 0
  /\ Len(created_workflows) < MaxWorkflows
  /\ \E workflow_id \in WorkflowIdArguments, built \in BOOLEAN :
       IF ~built
       THEN UNCHANGED <<active_workflows, performance_stats, created_workflows>>
       ELSE \E workflow \in {NewWorkflowState(SecondsText(clock_seconds))} :
              /\ created_workflows' =
                   Append(created_workflows,
                          [registered_as  |-> RegisteredId(workflow_id, workflow),
                           workflow_state |-> workflow])
              /\ active_workflows' =
                   Register(active_workflows,
                            RegisteredId(workflow_id, workflow),
                            Len(created_workflows) + 1)
              /\ performance_stats' =
                   [performance_stats EXCEPT !.total_workflows = @ + 1]
  /\ UNCHANGED <<clock_seconds, notManagerVars>>

\* A second passes.
ClockTick ==
  /\ clock_seconds >= 0
  /\ clock_seconds < MaxSeconds
  /\ clock_seconds' = clock_seconds + 1
  /\ UNCHANGED <<active_workflows, performance_stats, created_workflows, notManagerVars>>

\* ------------------------------------------------------------------------
\* Controller agent (controller_agent.py)
\* ------------------------------------------------------------------------
\* Config.MEMORY_SIZE
MEMORY_SIZE == 1000

\* The most calls made on one controller after the events it starts with.
MaxControllerCalls == 2

\* An update that keeps the oldest MEMORY_SIZE events.
UpdateSessionStateKeepingOldest(memory, event, data) ==
  LET appended == Append(memory, [event |-> event, data |-> data])
  IN  IF Len(appended) > MEMORY_SIZE
      THEN SubSeq(appended, 1, MEMORY_SIZE)
      ELSE appended

\* _update_session_state(event, data): context_memory afterwards (events
\* without their timestamps).
UpdateSessionState(memory, event, data) ==
  LET appended == Append(memory, [event |-> event, data |-> data])
  IN  IF Len(appended) > MEMORY_SIZE
      THEN SubSeq(appended, Len(appended) - MEMORY_SIZE + 1, Len(appended))
      ELSE appended

\* What crew.kickoff() does: it raises, or it returns the output of the
\* language model, of which the callers read str(result).
CrewOutcomes ==
  { [kind |-> "raises", message |-> "rate limit"],
    [kind |-> "returns", text |-> "{\"tasks\": [\"search\"]}"],
    [kind |-> "returns", text |-> "[\"search\"]"],
    [kind |-> "returns", text |-> "Plan: search first"] }

\* json.loads(text) on the outputs above: a dict, a list, or JSONDecodeError.
JsonLoads(text) ==
  IF text = "{\"tasks\": [\"search\"]}"
  THEN [type |-> "dict", keys |-> {"tasks"}, tasks |-> <<"search">>]
  ELSE IF text = "[\"search\"]"
  THEN [type |-> "list", items |-> <<"search">>]
  ELSE [type |-> "JSONDecodeError"]

\* The fallback analysis of analyze_research_request
FallbackAnalysis(q) ==
  [type |-> "dict", keys |-> {"query", "complexity", "topics", "methodology",
                              "challenges", "success_metrics"},
   query |-> q]

\* _create_fallback_plan(query)
CreateFallbackPlan(q) ==
  [type |-> "dict", keys |-> {"query", "complexity", "approach", "steps",
                              "agents_needed"},
   query |-> q]

\* The tasks of _create_fallback_delegation_plan(analysis), by their ids.
FallbackTasks == <<"task_1", "task_2", "task_3">>

\* _create_fallback_delegation_plan(analysis): analysis.get raises
\* AttributeError on a value that is no dict.
FallbackDelegationRaises(analysis) == analysis.type /= "dict"

CreateFallbackDelegationPlan(analysis) ==
  [type |-> "dict", keys |-> {"tasks"}, tasks |-> FallbackTasks]

\* str(e) of the AttributeError of value.get
NoGetError(value) == <<"'", value.type, "' object has no attribute 'get'">>

\* analyze_research_request(user_query), given what the crew did: the event
\* it records and the value it returns.
AnalyzeRequest(q, crew) ==
  IF crew.kind = "raises"
  THEN LET error_analysis ==
             [type |-> "dict", keys |-> {"error", "query", "fallback_plan"},
              error |-> crew.message, query |-> q,
              fallback_plan |-> CreateFallbackPlan(q)]
       IN  [events  |-> << [event |-> "analysis_failed", data |-> error_analysis] >>,
            outcome |-> "returned",
            value   |-> error_analysis]
  ELSE LET parsed   == JsonLoads(crew.text)
           analysis == IF parsed.type = "JSONDecodeError"
                       THEN FallbackAnalysis(q) ELSE parsed
       IN  [events  |-> << [event |-> "analysis_completed", data |-> analysis] >>,
            outcome |-> "returned",
            value   |-> analysis]

\* The except clause of create_task_delegation_plan, entered after `before`
\* was recorded: the fallback plan is built again, and from an analysis that
\* is no dict this raises out of the call.
DelegationFailed(analysis, before, message) ==
  IF FallbackDelegationRaises(analysis)
  THEN [events |-> before, outcome |-> "raised", value |-> NoGetError(analysis)]
  ELSE [events  |-> Append(before, [event |-> "delegation_failed",
                                    data  |-> [type |-> "dict", keys |-> {"error"},
                                               error |-> message]]),
        outcome |-> "returned",
        value   |-> CreateFallbackDelegationPlan(analysis).tasks]

\* create_task_delegation_plan(analysis), given what the crew did: the events
\* it records, and the value it returns or the error it raises.
DelegationPlan(analysis, crew) ==
  IF crew.kind = "raises"
  THEN DelegationFailed(analysis, <<>>, <<crew.message>>)
  ELSE LET parsed == JsonLoads(crew.text)
       IN  IF parsed.type = "JSONDecodeError" /\ FallbackDelegationRaises(analysis)
           THEN DelegationFailed(analysis, <<>>, NoGetError(analysis))
           ELSE LET delegation_plan ==
                      IF parsed.type = "JSONDecodeError"
                      THEN CreateFallbackDelegationPlan(analysis) ELSE parsed
                    planned ==
                      << [event |-> "delegation_planned", data |-> delegation_plan] >>
                IN  IF delegation_plan.type = "dict"
                    THEN [events  |-> planned,
                          outcome |-> "returned",
                          value   |-> IF "tasks" \in delegation_plan.keys
                                      THEN delegation_plan.tasks ELSE <<>>]
                    ELSE DelegationFailed(analysis, planned,
                                          NoGetError(delegation_plan))

\* context_memory after the events of one call were recorded in order.
RecordAll(memory, events) ==
  LET M[i \in 0..Len(events)] ==
        IF i = 0 THEN memory
        ELSE UpdateSessionState(M[i - 1], events[i].event, events[i].data)
  IN  M[Len(events)]

\* The events a controller has recorded before the calls of the model, by
\* earlier calls of _update_session_state(event, data) with data 1, 2, ...
EarlierEvents(n) ==
  [i \in 1..n |-> [event |-> "earlier_event", data |-> [type |-> "int", value |-> i]]]

\* The analysis arguments of create_task_delegation_plan: what
\* analyze_research_request returned for a JSON object and for a JSON list.
AnalysisArguments ==
  { FallbackAnalysis("ai safety"), [type |-> "list", items |-> <<"search">>] }

InitController ==
  /\ \E n \in {0, MEMORY_SIZE - 1} :
       /\ context_memory = EarlierEvents(n)
       /\ recorded = EarlierEvents(n)
  /\ controller_calls = 0
  /\ controller_return = <<>>

IdleController ==
  /\ context_memory = <<>>
  /\ recorded = <<>>
  /\ controller_calls = -1
  /\ controller_return = <<>>

\* The calls on a controller go on while the bound allows.
MayCallController == controller_calls >= 0 /\ controller_calls < MaxControllerCalls

\* What one call of a method leaves: the events it records go to
\* context_memory through _update_session_state, one after the other.
ControllerCall(call, result) ==
  /\ controller_calls' = controller_calls + 1
  /\ context_memory' = RecordAll(context_memory, result.events)
  /\ recorded' = recorded \o result.events
  /\ controller_return' = [call |-> call, outcome |-> result.outcome,
                           value |-> result.value]

\* One call of _update_session_state(event, data).
SessionUpdate ==
  /\ MayCallController
  /\ ControllerCall("_update_session_state",
                    [events  |-> << [event |-> "task_completed",
                                     data  |-> [type |-> "str", text |-> "done"]] >>,
                     outcome |-> "returned",
                     value   |-> "None"])
  /\ UNCHANGED notControllerVars

\* One call of analyze_research_request(user_query).
AnalyzeResearchRequest ==
  /\ MayCallController
  /\ \E crew \in CrewOutcomes :
       ControllerCall("analyze_research_request", AnalyzeRequest("ai safety", crew))
  /\ UNCHANGED notControllerVars

\* One call of create_task_delegation_plan(analysis).
CreateTaskDelegationPlan ==
  /\ MayCallController
  /\ \E analysis \in AnalysisArguments, crew \in CrewOutcomes :
       ControllerCall("create_task_delegation_plan", DelegationPlan(analysis, crew))
  /\ UNCHANGED notControllerVars

IdleTools == IdleFact /\ IdleSearch /\ IdleCite /\ IdleBatch /\ IdleCheck

IdleOrchestration == IdleWorkflow /\ IdleManager /\ IdleController

\* ------------------------------------------------------------------------
\* Specifications: one per tool, the other tools idle.
\* ------------------------------------------------------------------------
vars == <<toolVars, orchestrationVars>>

FactStart == InitFact /\ IdleSearch /\ IdleCite /\ IdleBatch /\ IdleCheck
  /\ IdleOrchestration

NextFact == VerifyClaim

SpecFact == FactStart /\ [][NextFact]_vars

SearchStart == InitSearch /\ IdleFact /\ IdleCite /\ IdleBatch /\ IdleCheck
  /\ IdleOrchestration

NextSearch == AdvancedWebSearch \/ MainSearch

SpecSearch == SearchStart /\ [][NextSearch]_vars

CiteStart == InitCite /\ IdleFact /\ IdleSearch /\ IdleBatch /\ IdleCheck
  /\ IdleOrchestration

NextCite == ValidateCitation

SpecCite == CiteStart /\ [][NextCite]_vars

StyleStart == InitStyle /\ IdleFact /\ IdleSearch /\ IdleBatch /\ IdleCheck
  /\ IdleOrchestration

NextStyle == RequiredComponents

SpecStyle == StyleStart /\ [][NextStyle]_vars

\* The two batch tools: one call of citation_validator or of fact_checker.
BatchStart ==
  /\ IdleFact /\ IdleSearch /\ IdleCite /\ IdleOrchestration
  /\ \/ InitBatch /\ IdleCheck
     \/ IdleBatch /\ InitCheck

NextBatch == CitationValidator \/ MainValidate \/ FactChecker

SpecBatch == BatchStart /\ [][NextBatch]_vars

\* One workflow: calls of execute_research, stage by stage.
WorkflowStart == InitWorkflow /\ IdleManager /\ IdleController /\ IdleTools

NextWorkflow ==
  \/ ExecuteResearch
  \/ QueryAnalysis
  \/ CrewStage
  \/ QualityValidation
  \/ ExceptWorkflowError

SpecWorkflow == WorkflowStart /\ [][NextWorkflow]_vars

\* One workflow manager.
ManagerStart == InitManager /\ IdleWorkflow /\ IdleController /\ IdleTools

NextManager == CreateWorkflow \/ ClockTick

SpecManager == ManagerStart /\ [][NextManager]_vars

\* One controller.
ControllerStart == InitController /\ IdleWorkflow /\ IdleManager /\ IdleTools

NextController == SessionUpdate \/ AnalyzeResearchRequest \/ CreateTaskDelegationPlan

SpecController == ControllerStart /\ [][NextController]_vars

\* ------------------------------------------------------------------------
\* Properties of the citation validator (SpecCite, SpecStyle)
\* ------------------------------------------------------------------------
CiteReturned == cite_pc = "return"

\* The components of the record under study that are there and not empty.
PresentIn(record, names) ==
  { i \in 1..Len(names) : Has(record.metadata, names[i]) }

\* Whether the URL check of the record found the URL reachable.
Reachable(record) ==
  record.url_validation /= <<>> /\ record.url_validation.is_accessible

\* The fraction of the required fields that are present, plus 0.10 for a
\* doi and 0.05 for a url.
FieldsAndBonuses(record, required) ==
  (Cardinality(PresentIn(record, required)) * Unit) \div Len(required)
    + (IF Has(record.metadata, "doi") THEN Tenths(1) ELSE 0)
    + (IF Has(record.metadata, "url") THEN Hundredths(5) ELSE 0)

\* The 0.10 a reachable url adds to the citation score.
ReachabilityBonus(record) == IF Reachable(record) THEN Tenths(1) ELSE 0

\* C1: in every record _validate_single_citation returns, is_valid is true
\* exactly when the final quality_score is at least 0.7 (840/1200), whatever
\* the citation style of the call.
C1_ValidIffScoreAtLeastThreshold ==
  CiteReturned =>
    (validation_result.is_valid <=> 10 * validation_result.quality_score >= 7 * Unit)

\* A record of an APA call that is valid with the score 0.75, three of the
\* four required fields and no bonus.
C1_Witness ==
  /\ CiteReturned
  /\ style = <<"A","P","A">>
  /\ validation_result.is_valid
  /\ validation_result.quality_score = Hundredths(75)

\* C2: the citation score is the fraction of the required fields that are
\* present, plus 0.10 for a doi, plus 0.05 for a url, capped at 1.0; the
\* quality score of a record is this score, with the 0.10 of a reachable url
\* and capped again, and so lies in [0, 1].
C2_ScoreIsCappedSum ==
  CiteReturned =>
    /\ validation_result.quality_score
         = Min(Min(FieldsAndBonuses(validation_result, required_components), Unit)
                 + ReachabilityBonus(validation_result), Unit)
    /\ validation_result.quality_score >= 0
    /\ validation_result.quality_score <= Unit

\* A record with every required field, a doi and a url that is not reachable:
\* the fields and bonuses add up to 1.15 and the score is 1.0.
C2_Witness ==
  /\ CiteReturned
  /\ FieldsAndBonuses(validation_result, required_components) = Hundredths(115)
  /\ ~Reachable(validation_result)
  /\ validation_result.quality_score = Unit

\* C3: the year of the components is the complete four-digit text of the last
\* match of the year pattern in the citation.
C3_YearIsLastFullMatch ==
  (CiteReturned /\ YearMatches(citation) /= {}) =>
    /\ "year" \in DOMAIN validation_result.metadata
    /\ validation_result.metadata["year"]
         = SubSeq(citation, SetMax(YearMatches(citation)),
                  SetMax(YearMatches(citation)) + 3)

KnownAuthors == { <<"S","m","i","t","h">>, <<"J","."," ","D","o","e">> }

KnownYears == { <<"2","0","2","0">> }

KnownTitles == { <<"D","e","e","p"," ","N","e","t","s">> }

KnownJournals == { <<"N","a","t","u","r","e">> }

KnownUrls == { <<"h","t","t","p","s",":","/","/","a",".","o","r","g","/","p">> }

\* author (year). "title" *journal* url
BuiltCitation(a, y, t, j, u) ==
  a \o <<" ", "(">> \o y \o <<")", ".", " ", "\"">> \o t \o <<"\"", " ", "*">>
    \o j \o <<"*", " ">> \o u

\* C4: from a citation built of a known author, "(year)", a quoted title, an
\* italic journal and a url, the extraction returns exactly these five values.
C4_RoundTrip ==
  \A a \in KnownAuthors, y \in KnownYears, t \in KnownTitles,
     j \in KnownJournals, u \in KnownUrls :
    (CiteReturned /\ citation = BuiltCitation(a, y, t, j, u)) =>
      validation_result.metadata
        = [author |-> a, year |-> y, title |-> t, journal |-> j, url |-> u]

\* C5: the required components are author, title, year and source for the
\* styles APA, MLA and Chicago in any letter case, and author, title, year
\* for every other style.
C5_RequiredByStyle ==
  CiteReturned =>
    Range(required_components)
      = IF Lower(style) \in { <<"a","p","a">>, <<"m","l","a">>,
                              <<"c","h","i","c","a","g","o">> }
        THEN {"author", "title", "year", "source"}
        ELSE {"author", "title", "year"}

\* C6: when source is required, it counts as present exactly when the
\* components hold a journal or a url: then the record has the strength
\* "Has source" and not the issue "Missing source", and otherwise the issue.
C6_SourceIsJournalOrUrl ==
  (CiteReturned /\ "source" \in Range(required_components)) =>
    LET present == Has(validation_result.metadata, "journal")
                     \/ Has(validation_result.metadata, "url")
    IN  /\ present <=> <<"Has ", "source">> \in Range(validation_result.strengths)
        /\ ~present <=> <<"Missing ", "source">> \in Range(validation_result.issues)

\* ------------------------------------------------------------------------
\* Properties of the claim verifier (SpecFact)
\* ------------------------------------------------------------------------
FactReturned == fact_pc = "return"

\* C7: the overlap ratio r = matching / total decides the record: r >= 0.7
\* gives strongly_supported with confidence 0.9, 0.4 <= r < 0.7 gives
\* partially_supported with 0.6, r < 0.4 gives insufficient_evidence with 0.3
\* (r is 0 for a claim without tokens); no other status or confidence occurs.
C7_ThreeBuckets ==
  FactReturned =>
    LET m == keyword_overlap.matching
        n == keyword_overlap.total
        status     == verification.verification_status
        confidence == verification.confidence_score
    IN  /\ (n > 0 /\ 10 * m >= 7 * n)
             => (status = "strongly_supported" /\ confidence = Tenths(9))
        /\ (n > 0 /\ 10 * m >= 4 * n /\ 10 * m < 7 * n)
             => (status = "partially_supported" /\ confidence = Tenths(6))
        /\ (n = 0 \/ 10 * m < 4 * n)
             => (status = "insufficient_evidence" /\ confidence = Tenths(3))
        /\ status \in {"strongly_supported", "partially_supported",
                       "insufficient_evidence"}

\* A claim of ten tokens of which exactly seven match: r is exactly 0.7.
C7_Witness ==
  /\ FactReturned
  /\ keyword_overlap = [matching |-> 7, total |-> 10]
  /\ verification.verification_status = "strongly_supported"

\* C8: the matching tokens of a claim are its lowercase word tokens that are
\* word tokens of the lower-cased source text.
C8_OverlapCountsWordTokens ==
  FactReturned =>
    /\ keyword_overlap.total = Cardinality(WordTokens(Lower(claim)))
    /\ keyword_overlap.matching
         = Cardinality(WordTokens(Lower(claim)) \cap WordTokens(Lower(sources)))

\* ------------------------------------------------------------------------
\* Properties of the search-result scorer (SpecSearch)
\* ------------------------------------------------------------------------
\* advanced_web_search returned a result list.
RankedBySearchTool ==
  /\ search_pc = "return"
  /\ searched_by = "advanced_web_search"
  /\ "results" \in DOMAIN search_output

\* The hits advanced_web_search processed, in the order the provider gave them.
ProcessedInInputOrder ==
  [i \in 1..Min(max_results, Len(search_results)) |->
     ProcessedResult(query, search_results[i])]

\* The elements of a result list whose relevance + quality is v, in list order.
WithCombined(list, v) ==
  LET Same(r) == r.relevance_score + r.content_quality = v
  IN  SelectSeq(list, Same)

\* C9: the returned results are in descending order of (relevance + quality)/2
\* and the results of equal combined score are in their input order.
C9_StableDescendingRanking ==
  RankedBySearchTool =>
    \A out \in {search_output.results}, given \in {ProcessedInInputOrder} :
      /\ \A i \in 1..(Len(out) - 1) :
           out[i].relevance_score + out[i].content_quality
             >= out[i + 1].relevance_score + out[i + 1].content_quality
      /\ \A k \in 1..Len(out) :
           LET v == out[k].relevance_score + out[k].content_quality
           IN  WithCombined(out, v) = WithCombined(given, v)
      /\ Len(out) = Len(given)

\* Three results: two different hits of equal combined score in their input
\* order, behind a hit of greater score that came last from the provider.
C9_Witness ==
  /\ RankedBySearchTool
  /\ Len(search_output.results) = 3
  /\ search_output.results[1] = ProcessedInInputOrder[3]
  /\ search_output.results[2] = ProcessedInInputOrder[1]
  /\ search_output.results[3] = ProcessedInInputOrder[2]
  /\ search_output.results[2] /= search_output.results[3]
  /\ CombinedScore(search_output.results[2]) = CombinedScore(search_output.results[3])
  /\ CombinedScore(search_output.results[1]) > CombinedScore(search_output.results[2])

\* C10: for a query without terms the search does not end in an error of its
\* own (the provider may fail), and every hit has relevance 0.5.
C10_NoTermsGivesHalf ==
  (search_pc = "return" /\ SplitTerms(Lower(query)) = {}) =>
    IF "error" \in DOMAIN search_output
    THEN search_output.error = "Search failed: provider error"
    ELSE \A i \in 1..Len(search_output.results) :
           search_output.results[i].relevance_score = Tenths(5)

\* advanced_web_search or AdvancedWebSearchTool.search returned a result list.
SearchReturnedResults ==
  /\ search_pc = "return"
  /\ "results" \in DOMAIN search_output

\* The distinct lower-cased terms of the query of the call.
DistinctTerms == SplitTerms(Lower(query))

\* The number of the terms that occur in the lower-cased text.
TermsIn(terms, text) ==
  Cardinality({ term \in terms : Contains(term, Lower(text)) })

\* C11: for a query with at least one term, the relevance of every returned
\* result is (titleMatches * 0.7 + snippetMatches * 0.3) / |queryTerms| capped
\* at 1.0, over the distinct lower-cased terms of the query, and lies in [0, 1].
C11_RelevanceIsWeightedMatchFraction ==
  SearchReturnedResults =>
    \A terms \in {DistinctTerms} :
      terms /= {} =>
        \A i \in 1..Len(search_output.results) :
          LET r == search_output.results[i]
              n == Cardinality(terms)
          IN  /\ 10 * n * r.relevance_score
                   = Min(7 * TermsIn(terms, r.title) + 3 * TermsIn(terms, r.snippet),
                         10 * n) * Unit
              /\ r.relevance_score >= 0
              /\ r.relevance_score <= Unit

\* A query of three words and two distinct terms, and a result whose title
\* holds both terms and whose snippet holds one: relevance 0.85.
C11_Witness ==
  /\ SearchReturnedResults
  /\ searched_by = "advanced_web_search"
  /\ Len(query) = 13
  /\ Cardinality(DistinctTerms) = 2
  /\ \E i \in 1..Len(search_output.results) :
       /\ TermsIn(DistinctTerms, search_output.results[i].title) = 2
       /\ TermsIn(DistinctTerms, search_output.results[i].snippet) = 1
       /\ search_output.results[i].relevance_score = Hundredths(85)

\* The domain of a url: the network location between "://" and the path.
DomainOf(url) == IF url = <<>> THEN <<>> ELSE UrlParse(url).netloc

EndsWith(s, suffix) ==
  /\ Len(s) >= Len(suffix)
  /\ SubSeq(s, Len(s) - Len(suffix) + 1, Len(s)) = suffix

\* The domain bonus of a url: 0.3 when the domain ends in .edu, .gov or .org,
\* otherwise 0.2 when the domain contains wikipedia, arxiv or scholar.
DomainBonus(url) ==
  IF \E tld \in { <<".","e","d","u">>, <<".","g","o","v">>, <<".","o","r","g">> } :
       EndsWith(DomainOf(url), tld)
  THEN Tenths(3)
  ELSE IF \E site \in { <<"w","i","k","i","p","e","d","i","a">>, <<"a","r","x","i","v">>,
                        <<"s","c","h","o","l","a","r">> } :
            Contains(site, DomainOf(url))
       THEN Tenths(2)
       ELSE 0

\* C12: the content quality of every result is 0.5, plus 0.2 for a snippet of
\* more than 100 characters, plus 0.1 for a title of more than 20 characters,
\* plus the one domain bonus of the url's domain, capped at 1.0.
C12_QualityFromLengthsAndDomain ==
  (SearchReturnedResults /\ searched_by = "advanced_web_search") =>
    \A i \in 1..Len(search_output.results) :
      LET r == search_output.results[i]
      IN  r.content_quality
            = Min(Tenths(5) + (IF Len(r.snippet) > 100 THEN Tenths(2) ELSE 0)
                            + (IF Len(r.title) > 20 THEN Tenths(1) ELSE 0)
                            + DomainBonus(r.url), Unit)

\* The rules of the source type, in their order: what the url has to hold,
\* and the type it then gets.
SourceTypeRules ==
  << [needles |-> { <<".","e","d","u">> }, type |-> "academic"],
     [needles |-> { <<".","g","o","v">> }, type |-> "government"],
     [needles |-> { <<".","o","r","g">> }, type |-> "organization"],
     [needles |-> { <<"w","i","k","i","p","e","d","i","a">> }, type |-> "encyclopedia"],
     [needles |-> { <<"a","r","x","i","v">> }, type |-> "preprint"],
     [needles |-> { <<"b","b","c">>, <<"c","n","n">>, <<"r","e","u","t","e","r","s">>,
                    <<"a","p">>, <<"n","e","w","s">> }, type |-> "news"] >>

\* The rules a url matches.
MatchingRules(url) ==
  { k \in 1..Len(SourceTypeRules) :
      \E needle \in SourceTypeRules[k].needles : Contains(needle, url) }

\* C13: the source type of every result advanced_web_search returns is one of
\* the seven types, the type of the first rule its url matches in the order
\* .edu, .gov, .org, wikipedia, arxiv, news sites, and general when none does.
C13_SourceTypeByFirstRule ==
  (SearchReturnedResults /\ searched_by = "advanced_web_search") =>
    \A i \in 1..Len(search_output.results) :
      LET r == search_output.results[i]
      IN  /\ r.source_type \in { "academic", "government", "organization",
                                 "encyclopedia", "preprint", "news", "general" }
          /\ r.source_type
               = IF MatchingRules(r.url) = {} THEN "general"
                 ELSE SourceTypeRules[SetMin(MatchingRules(r.url))].type

\* A url that matches the rules of .org and of wikipedia and has the type of
\* the earlier one.
C13_Witness ==
  /\ SearchReturnedResults
  /\ searched_by = "advanced_web_search"
  /\ \E i \in 1..Len(search_output.results) :
       /\ MatchingRules(search_output.results[i].url) = {3, 4}
       /\ search_output.results[i].source_type = "organization"

\* _validate_single_citation returned a record with a URL check in it.
UrlChecked == CiteReturned /\ validation_result.url_validation /= <<>>

\* C14: in every URL check result, is_accessible is true exactly when the
\* status code is 200 and no error is set.
C14_ReachableIffStatus200AndNoError ==
  UrlChecked =>
    LET check == validation_result.url_validation
    IN  check.is_accessible <=> (check.status_code = <<200>> /\ check.error = <<>>)

\* citation_validator returned.
BatchReturned == batch_pc = "return" /\ validated_by = "citation_validator"

\* citation_validator returned its result dict, not its error dict.
BatchValidated == BatchReturned /\ "error" \notin DOMAIN validation_results

\* The HEAD request of citation i of the batch raised.
HeadRaised(i) ==
  head_responses[i].kind \in {"Timeout", "ConnectionError", "Exception"}

\* C15: a HEAD request that times out, fails to connect or raises anything
\* else never makes the batch fail: the check of that citation comes back
\* with its error set and not reachable, and every citation of the batch,
\* the ones after it included, has its record.
C15_FailedUrlCheckStaysInItsRecord ==
  (BatchReturned /\ \E i \in DOMAIN head_responses : HeadRaised(i)) =>
    /\ BatchValidated
    /\ Len(validation_results.validated_citations) = Len(citation_list)
    /\ \A i \in 1..Len(citation_list) :
         LET record == validation_results.validated_citations[i]
         IN  /\ record.original_citation = citation_list[i]
             /\ record.citation_number = i
             /\ HeadRaised(i) =>
                  /\ record.url_validation.error /= <<>>
                  /\ ~record.url_validation.is_accessible

C15_Witness ==
  /\ BatchValidated
  /\ Len(citation_list) = 2
  /\ HeadRaised(1)
  /\ validation_results.validated_citations[1].url_validation.error
       = <<"Request timeout">>
  /\ validation_results.validated_citations[2].url_validation /= <<>>
  /\ validation_results.validated_citations[2].url_validation.is_accessible

\* fact_checker returned.
CheckReturned == check_pc = "return"

\* The sum of the field of every record of a list.
TotalOf(records, field) ==
  LET T[i \in 0..Len(records)] ==
        IF i = 0 THEN 0 ELSE T[i - 1] + records[i][field]
  IN  T[Len(records)]

\* The arithmetic mean of that field, 0.0 over no records.
MeanOf(records, field) ==
  IF Len(records) = 0 THEN Zero
  ELSE Quotient(TotalOf(records, field), Len(records))

\* C16: the overall quality of a batch of citations is the arithmetic mean
\* of the records' quality scores, and the overall reliability of a batch of
\* claims the mean of the records' confidence scores; over an empty batch
\* both are 0.0, and the call returns its result, not an error.
C16_OverallIsMeanAndZeroWhenEmpty ==
  /\ (BatchReturned /\ citations.type = "str") =>
       /\ BatchValidated
       /\ validation_results.validation_summary.overall_quality_score
            = MeanOf(validation_results.validated_citations, "quality_score")
  /\ CheckReturned =>
       /\ "error" \notin DOMAIN fact_check_results
       /\ fact_check_results.overall_reliability
            = MeanOf(fact_check_results.verification_results, "confidence_score")

C16_Witness ==
  /\ BatchValidated
  /\ citations.value /= <<>>
  /\ validation_results.validated_citations = <<>>
  /\ validation_results.validation_summary.total_citations = 0
  /\ validation_results.validation_summary.overall_quality_score = Zero

\* A batch of two claims of different confidence and their mean.
C16_MeanOfTwoClaims ==
  /\ CheckReturned
  /\ fact_check_results.total_claims = 2
  /\ fact_check_results.verification_results[1].confidence_score
       /= fact_check_results.verification_results[2].confidence_score
  /\ fact_check_results.overall_reliability.den = 2

\* The fragments the separators cut a text into, trimmed, that are at least
\* NoiseLength characters long, in the order of the text.
FragmentsOfNoiseLengthOrMore(text) ==
  LET fragments == SplitBySeparators(text)
      trimmed   == [k \in 1..Len(fragments) |-> Strip(fragments[k])]
      Long(fragment) == Len(fragment) >= NoiseLength
  IN  SelectSeq(trimmed, Long)

\* C17: a citations argument that is the empty string or no string at all
\* gives a result with no citations in it, not an error result.
C17_MalformedInputGivesNoCitations ==
  (BatchReturned /\ (citations.type /= "str" \/ citations.value = <<>>)) =>
    /\ BatchValidated
    /\ validation_results.validated_citations = <<>>
    /\ validation_results.validation_summary.total_citations = 0

\* C18: the citations parsed from a text are its trimmed fragments of 20
\* characters or more, every one of them, in the order of the text.
C18_KeepsFragmentsOfTwentyOrMore ==
  (BatchReturned /\ citations.type = "str") =>
    citation_list = FragmentsOfNoiseLengthOrMore(citations.value)

\* What does hold of the parsed list: the fragments longer than NoiseLength,
\* in order, a repeated fragment as often as it is written.
ParsedAreTheLongerFragments ==
  (BatchReturned /\ citations.type = "str") =>
    \E kept \in {FragmentsOfNoiseLengthOrMore(citations.value)} :
      citation_list = SelectSeq(kept, LAMBDA fragment : Len(fragment) /= NoiseLength)

\* The styles the formatting knows, in lower case.
KnownStyles == { <<"a","p","a">>, <<"m","l","a">>, <<"c","h","i","c","a","g","o">> }

\* C19: for a style that is none of APA, MLA and Chicago in any case of
\* letters, formatting does not fail and gives what APA formatting gives.
C19_UnknownStyleFormatsAsApa ==
  (CiteReturned /\ Lower(style) \notin KnownStyles) =>
    validation_result.formatted_citation
      = FormatApaCitation(validation_result.metadata)

C19_Witness ==
  /\ CiteReturned
  /\ Lower(style) \notin KnownStyles
  /\ Has(validation_result.metadata, "author")
  /\ Has(validation_result.metadata, "url")
  /\ validation_result.formatted_citation
       = FormatApaCitation(validation_result.metadata)
  /\ \A now \in Clock :
       validation_result.formatted_citation
         /= FormatMlaCitation(validation_result.metadata, now)

\* Two records of one batch that were formatted from equal components (the
\* style is the one of the batch).
FormattedFromSameArguments(i, j) ==
  validation_results.validated_citations[i].metadata
    = validation_results.validated_citations[j].metadata

\* C20: formatting is a function of the components and the style alone: two
\* calls with equal arguments, made at different times, return the same
\* text, in every style.
C20_FormattingDependsOnArgumentsOnly ==
  BatchValidated =>
    \A i, j \in 1..Len(validation_results.validated_citations) :
      FormattedFromSameArguments(i, j) =>
        validation_results.validated_citations[i].formatted_citation
          = validation_results.validated_citations[j].formatted_citation

\* What does hold: the text depends on the time of the call only in the
\* styles MLA and Chicago, and only for components with a url.
FormattingReadsClockOnlyForUrlInMlaOrChicago ==
  BatchValidated =>
    \A i, j \in 1..Len(validation_results.validated_citations) :
      (/\ FormattedFromSameArguments(i, j)
       /\ \/ Lower(citation_style) \notin { <<"m","l","a">>, <<"c","h","i","c","a","g","o">> }
          \/ ~Has(validation_results.validated_citations[i].metadata, "url")) =>
        validation_results.validated_citations[i].formatted_citation
          = validation_results.validated_citations[j].formatted_citation

\* What _validate_components gave the record under study before the URL check.
BeforeUrlCheck ==
  ValidateComponents(validation_result.metadata,
                     GetRequiredComponents(style))

\* C21: a citation with a url gets exactly one of two things from the URL
\* check: when the url is reachable, 0.10 more score (before the cap), one
\* more strength and no issue; when it is not, one more issue that carries
\* the error text and the same score.  A citation without a url gets no URL
\* check and neither of the two.
C21_UrlCheckAddsBonusOrIssue ==
  CiteReturned =>
    \E before \in {BeforeUrlCheck} :
      LET record == validation_result
          check  == record.url_validation
      IN  IF ~Has(record.metadata, "url")
          THEN /\ check = <<>>
               /\ record.quality_score = Min(before.score, Unit)
               /\ record.strengths = before.strengths
               /\ record.issues = before.issues
          ELSE IF check.is_accessible
          THEN /\ record.quality_score = Min(before.score + Tenths(1), Unit)
               /\ record.strengths = Append(before.strengths, <<"URL is accessible">>)
               /\ record.issues = before.issues
          ELSE /\ record.quality_score = Min(before.score, Unit)
               /\ record.strengths = before.strengths
               /\ record.issues
                    = Append(before.issues, <<"URL not accessible: ">> \o check.error)
               /\ check.error /= <<>>

C21_Witness ==
  /\ CiteReturned
  /\ Has(validation_result.metadata, "url")
  /\ validation_result.url_validation.is_accessible
  /\ validation_result.quality_score = BeforeUrlCheck.score + Tenths(1)
  /\ validation_result.quality_score < Unit
  /\ validation_result.issues /= <<>>

\* The other outcome: an unreachable url that costs the record its validity.
C21_UnreachableWitness ==
  /\ CiteReturned
  /\ Has(validation_result.metadata, "url")
  /\ ~validation_result.url_validation.is_accessible
  /\ validation_result.quality_score = BeforeUrlCheck.score
  /\ ~validation_result.is_valid
  /\ IsValid(validation_result.quality_score + Tenths(1))

\* The recommendations of the returned batch hold this text.
Recommends(text) ==
  \E i \in 1..Len(validation_results.recommendations) :
    validation_results.recommendations[i] = <<text>>

\* The batch has an issue that says this.
BatchHasIssue(issue) ==
  \E i \in 1..Len(validation_results.issues_found) :
    validation_results.issues_found[i] = issue

\* The batch has an issue of an unreachable url.
BatchHasUrlIssue ==
  \E i \in 1..Len(validation_results.issues_found) :
    Head(validation_results.issues_found[i]) = "URL not accessible: "

\* C22: the recommendations are never empty and end in the reminder of the
\* style; the completeness recommendation is there exactly when the overall
\* quality is below 0.7, the one about authoritative sources exactly when it
\* is below 0.5 (so never without the first), and the recommendations about
\* authors, years, titles and urls exactly when the batch has such an issue.
C22_RecommendationsFollowRuleTable ==
  BatchValidated =>
    LET given   == validation_results.recommendations
        overall == validation_results.validation_summary.overall_quality_score
    IN  /\ given /= <<>>
        /\ given[Len(given)]
             = <<"Ensure all citations follow ">> \o citation_style
                 \o <<" formatting guidelines">>
        /\ Recommends("Review citations for completeness and accuracy")
             <=> 10 * overall.num < 7 * Unit * overall.den
        /\ Recommends("Consider using more authoritative sources")
             <=> 10 * overall.num < 5 * Unit * overall.den
        /\ Recommends("Consider using more authoritative sources")
             => Recommends("Review citations for completeness and accuracy")
        /\ Recommends("Add author information for incomplete citations")
             <=> BatchHasIssue(<<"Missing ", "author">>)
        /\ Recommends("Include publication years for all sources")
             <=> BatchHasIssue(<<"Missing ", "year">>)
        /\ Recommends("Provide complete titles for all cited works")
             <=> BatchHasIssue(<<"Missing ", "title">>)
        /\ Recommends("Verify all URLs are accessible and current")
             <=> BatchHasUrlIssue

\* A batch of overall quality 0.8: no completeness recommendation, and yet
\* a url issue of its own to recommend about before the reminder.
C22_Witness ==
  /\ BatchValidated
  /\ validation_results.validated_citations /= <<>>
  /\ 10 * validation_results.validation_summary.overall_quality_score.num
       = 8 * Unit * validation_results.validation_summary.overall_quality_score.den
  /\ ~Recommends("Review citations for completeness and accuracy")
  /\ Recommends("Verify all URLs are accessible and current")
  /\ Len(validation_results.recommendations) = 2

\* A batch below 0.5 gets both quality recommendations.
C22_LowQualityWitness ==
  /\ BatchValidated
  /\ validation_results.validated_citations /= <<>>
  /\ Recommends("Consider using more authoritative sources")
  /\ Recommends("Review citations for completeness and accuracy")
  /\ Recommends("Verify all URLs are accessible and current")

\* The issues of records i.. of the returned batch, one after the other.
RECURSIVE IssuesFrom(_)
IssuesFrom(i) ==
  IF i > Len(validation_results.validated_citations) THEN <<>>
  ELSE validation_results.validated_citations[i].issues \o IssuesFrom(i + 1)

\* C28: a result of citation_validator that is no error has one record per
\* parsed citation, numbered 1..n in the order of the input; total_citations
\* is n; valid_citations is the number of valid records, between 0 and n;
\* validation_rate is valid/total, and 0 when n = 0; needs_improvement says
\* that some record is not valid; issues_found is the records' issues, one
\* record after the other.
C28_SummaryCountsTheRecords ==
  BatchValidated =>
    LET records == validation_results.validated_citations
        summary == validation_results.validation_summary
        n       == Len(citation_list)
        valid   == Cardinality({ i \in 1..Len(records) : records[i].is_valid })
    IN  /\ Len(records) = n
        /\ \A i \in 1..n :
             /\ records[i].citation_number = i
             /\ records[i].original_citation = citation_list[i]
        /\ summary.total_citations = n
        /\ summary.valid_citations = valid
        /\ 0 <= summary.valid_citations
        /\ summary.valid_citations <= summary.total_citations
        /\ summary.validation_rate
             = (IF n = 0 THEN Zero ELSE Quotient(valid, n))
        /\ summary.needs_improvement <=> valid < n
        /\ validation_results.issues_found = IssuesFrom(1)

C28_Witness ==
  /\ BatchValidated
  /\ Len(citation_list) = 2
  /\ citation_list[1] /= citation_list[2]
  /\ ~validation_results.validated_citations[1].is_valid
  /\ validation_results.validated_citations[2].is_valid
  /\ validation_results.validated_citations[2].citation_number = 2
  /\ validation_results.validation_summary.validation_rate = Quotient(1, 2)
  /\ validation_results.validation_summary.needs_improvement
  /\ validation_results.validated_citations[2].issues /= <<>>

\* CitationValidatorTool.validate returned.
MainReturned ==
  batch_pc = "return" /\ validated_by = "CitationValidatorTool.validate"

\* C29: CitationValidatorTool.validate returns a summary and no error for
\* every string, also for one with no line of more than 20 trimmed
\* characters, where the summary counts 0 citations, 0 valid ones and a
\* validation rate of 0.
C29_MainValidateNeverFailsOnStrings ==
  (MainReturned /\ citations.type = "str") =>
    /\ "error" \notin DOMAIN validation_results
    /\ validation_results.total_citations = Len(citation_list)
    /\ citation_list = <<>> =>
         /\ validation_results.valid_citations = 0
         /\ validation_results.validation_rate = Zero

\* What does hold: a string with at least one citation line gets its summary.
MainValidateSummarisesCitations ==
  (MainReturned /\ citations.type = "str" /\ citation_list /= <<>>) =>
    /\ "error" \notin DOMAIN validation_results
    /\ validation_results.total_citations = Len(citation_list)
    /\ Len(validation_results.validated_citations) = Len(citation_list)
    /\ validation_results.valid_citations <= validation_results.total_citations

\* execute_research returned.
ResearchReturned == exec_pc = "return"

\* The workflow is in one of its two final states, and the value returned
\* says the same.
EndedCompleted(state, results) ==
  /\ state.status = "completed"
  /\ state.current_stage = "finished"
  /\ "status" \notin DOMAIN results

EndedFailed(state, results) ==
  /\ state.status = "failed"
  /\ state.current_stage = "error_handling"
  /\ "status" \in DOMAIN results
  /\ results.status = "error"

\* C23: a call of execute_research ends by returning, with the workflow
\* either completed and finished or failed and in error handling, never
\* still starting; it is failed exactly when the value returned has the
\* status error; and a failed run adds exactly one entry to the errors of
\* the workflow, a step that does not end a run none.
C23_EveryRunEndsCompletedOrFailed ==
  [][ IF exec_pc' = "return" /\ exec_pc /= "return"
      THEN \/ /\ EndedCompleted(workflow_state', workflow_results')
              /\ workflow_state'.errors = workflow_state.errors
           \/ /\ EndedFailed(workflow_state', workflow_results')
              /\ Len(workflow_state'.errors) = Len(workflow_state.errors) + 1
              /\ workflow_state'.errors[Len(workflow_state'.errors)]
                   = workflow_results'.error_details
      ELSE workflow_state'.errors = workflow_state.errors ]_vars

\* The same at the end of a run, as a predicate of the state.
EndsCompletedOrFailed ==
  ResearchReturned =>
    \/ EndedCompleted(workflow_state, workflow_results)
    \/ EndedFailed(workflow_state, workflow_results)

C23_Witness ==
  /\ ResearchReturned
  /\ runs = 2
  /\ EndedFailed(workflow_state, workflow_results)
  /\ Len(workflow_state.errors) = 2
  /\ workflow_state.errors[1].error /= workflow_state.errors[2].error

\* No stage that runs an agent raised in the run.
NoAgentStageRaised ==
  \A i \in 1..Len(stage_log) :
    stage_log[i].stage \in CrewStages \cup {"query_analysis"}
      => stage_log[i].outcome /= "raised"

\* C24: when every stage that runs an agent returns, execute_research
\* returns a result of status completed and leaves the workflow completed:
\* the validation stage cannot make a run fail by itself.
C24_AgentsReturnedMeansCompleted ==
  (ResearchReturned /\ NoAgentStageRaised) =>
    /\ workflow_state.status = "completed"
    /\ "workflow_metadata" \in DOMAIN workflow_results
    /\ workflow_results.workflow_metadata.status = "completed"

\* What does hold: a run whose agents all returned fails in the validation
\* stage, on the name re.
AgentsReturnedMeansNameError ==
  (ResearchReturned /\ NoAgentStageRaised) =>
    /\ Len(stage_log) = 4
    /\ stage_log[4] = [stage |-> "quality_validation", outcome |-> "raised",
                       error |-> NameErrorText]
    /\ EndedFailed(workflow_state, workflow_results)

\* C25: the stages of one call run in the order query analysis, information
\* gathering, data analysis, quality validation, synthesis, each at most
\* once; a stage starts only after the stages before it returned; after a
\* stage raised no stage runs.
C25_StagesRunInOrder ==
  (exec_pc /= "unused") =>
    /\ Len(stage_log) <= Len(Stages)
    /\ \A i \in 1..Len(stage_log) :
         /\ stage_log[i].stage = Stages[i]
         /\ i < Len(stage_log) => stage_log[i].outcome /= "raised"
    /\ exec_pc \in Range(Stages) =>
         /\ exec_pc = Stages[Len(stage_log) + 1]
         /\ \A i \in 1..Len(stage_log) : stage_log[i].outcome /= "raised"
    /\ (stage_log /= <<>> /\ stage_log[Len(stage_log)].outcome = "raised")
         => exec_pc \in {"except", "return"}

C25_Witness ==
  /\ ResearchReturned
  /\ Len(stage_log) = 3
  /\ stage_log[1].outcome = "error_analysis"
  /\ stage_log[2].outcome = "returned"
  /\ stage_log[3] = [stage |-> "data_analysis", outcome |-> "raised",
                     error |-> "crew failed"]
  /\ workflow_state.status = "failed"

\* C27: every workflow a manager created is still registered: there are as
\* many registrations as workflows counted, and the status asked for under
\* the id of a workflow is the state of that workflow.
C27_EveryCreatedWorkflowIsRegistered ==
  (clock_seconds >= 0) =>
    /\ Cardinality(DOMAIN active_workflows) = performance_stats.total_workflows
    /\ \A i \in 1..Len(created_workflows) :
         /\ created_workflows[i].registered_as \in DOMAIN active_workflows
         /\ active_workflows[created_workflows[i].registered_as] = i
         /\ GetWorkflowStatus(created_workflows[i].registered_as)
              = created_workflows[i].workflow_state

\* What does hold: the count is the number of workflows created, and an id
\* names the last workflow registered under it.
LastRegistrationWins ==
  (clock_seconds >= 0) =>
    /\ performance_stats.total_workflows = Len(created_workflows)
    /\ \A id \in DOMAIN active_workflows :
         active_workflows[id]
           = SetMax({ i \in 1..Len(created_workflows) :
                        created_workflows[i].registered_as = id })

\* The last events recorded, as many as context_memory may hold.
MostRecent(events) ==
  LET kept == IF Len(events) < MEMORY_SIZE THEN Len(events) ELSE MEMORY_SIZE
  IN  SubSeq(events, Len(events) - kept + 1, Len(events))

\* C26: context_memory never holds more than MEMORY_SIZE events, and after
\* any number of recorded events it holds the most recent of them, as many
\* as fit, in the order they were recorded.
C26_MemoryHoldsMostRecentEvents ==
  (controller_calls >= 0) =>
    /\ Len(context_memory) <= MEMORY_SIZE
    /\ context_memory = MostRecent(recorded)

C26_Witness ==
  /\ controller_calls > 0
  /\ Len(recorded) = MEMORY_SIZE + 2
  /\ Len(context_memory) = MEMORY_SIZE
  /\ context_memory[1] = recorded[3]
  /\ context_memory[1] /= recorded[1]
  /\ context_memory[MEMORY_SIZE] = recorded[MEMORY_SIZE + 2]

\* The methods that ask the language model.
AskingMethods == {"analyze_research_request", "create_task_delegation_plan"}

\* C30: whatever the language model returns, and also when the crew raises,
\* a call of analyze_research_request or of create_task_delegation_plan
\* returns normally and records exactly one event.
C30_AskingMethodsReturnAndRecordOnce ==
  [][ (controller_calls' /= controller_calls
         /\ controller_return'.call \in AskingMethods)
      => /\ controller_return'.outcome = "returned"
         /\ Len(recorded') = Len(recorded) + 1 ]_vars

\* What does hold: analyze_research_request returns and records one event;
\* create_task_delegation_plan does so for an analysis that is a dict unless
\* the model's output parses to something that is no dict, where it records
\* two; with an analysis that is no dict it may raise.
AnalysisReturnsAndRecordsOnce ==
  [][ (controller_calls' /= controller_calls)
      => /\ controller_return'.call = "analyze_research_request"
            => /\ controller_return'.outcome = "returned"
               /\ Len(recorded') = Len(recorded) + 1
         /\ controller_return'.call = "create_task_delegation_plan"
            => /\ Len(recorded') - Len(recorded) \in {0, 1, 2}
               /\ controller_return'.outcome = "returned"
                    => Len(recorded') > Len(recorded) ]_vars

====
